---- MODULE Spec2Model ----
(***************************************************************************)
(* LLMSimu: the pipeline orchestrator (js/app.js), its stage animators,    *)
(* and the streaming client (js/output.js), as state machines.             *)
(*                                                                         *)
(* Text is a sequence of one-character strings.  A timer that is pending   *)
(* is a field of the state; its firing is an action.  The browser runs one *)
(* task at a time, and a promise continuation runs in the task that        *)
(* resolved the promise, so every action below is one task: a handler or a *)
(* timer callback together with the continuations it releases, up to the   *)
(* next await.                                                             *)
(***************************************************************************)
EXTENDS Integers, Sequences, FiniteSets, TLC

(***************************************************************************)
(* Bounds of the model.                                                    *)
(***************************************************************************)
\* process() invocations that pass the entry guards in one behaviour
MaxRuns == 2
\* tokens one streaming response delivers to the orchestrator
MaxTokens == 2

(***************************************************************************)
(* Program constants (js/config.js).                                       *)
(***************************************************************************)
attentionMaxTokens == 12
ffnLayers == 3

Min(a, b) == IF a < b THEN a ELSE b

(***************************************************************************)
(* Text helpers: String.prototype.trim and the tokenizer's regular         *)
(* expression /[\w']+|[.,!?;:'"()\[\]{}---]/g (the two dashes of the       *)
(* character class that are not ASCII are outside the model's alphabet).   *)
(***************************************************************************)
WhiteSpace == {" ", "\t", "\n", "\r"}

RECURSIVE TrimStart(_)
TrimStart(s) ==
    IF s # <<>> /\ Head(s) \in WhiteSpace THEN TrimStart(Tail(s)) ELSE s

RECURSIVE TrimEnd(_)
TrimEnd(s) ==
    IF s # <<>> /\ s[Len(s)] \in WhiteSpace
    THEN TrimEnd(SubSeq(s, 1, Len(s) - 1))
    ELSE s

Trim(s) == TrimEnd(TrimStart(s))

WordChars ==
    {"a","b","c","d","e","f","g","h","i","j","k","l","m","n","o","p","q","r",
     "s","t","u","v","w","x","y","z",
     "A","B","C","D","E","F","G","H","I","J","K","L","M","N","O","P","Q","R",
     "S","T","U","V","W","X","Y","Z",
     "0","1","2","3","4","5","6","7","8","9","_","'"}

\* a punctuation class without the exclamation mark
PunctCharsNoBang ==
    {".", ",", "?", ";", ":", "'", "\"", "(", ")", "[", "]", "{", "}", "-"}

PunctChars ==
    {".", ",", "!", "?", ";", ":", "'", "\"", "(", ")", "[", "]", "{", "}", "-"}

BOS == <<"<","B","O","S",">">>
EOS == <<"<","E","O","S",">">>

\* text.match(regex): the matches from position i on, cur being the run of
\* word characters read so far
RECURSIVE RawTokens(_, _, _)
RawTokens(text, i, cur) ==
    LET flush == IF cur = <<>> THEN <<>> ELSE <<cur>> IN
    IF i > Len(text) THEN flush
    ELSE IF text[i] \in WordChars THEN RawTokens(text, i + 1, Append(cur, text[i]))
    ELSE IF text[i] \in PunctChars
         THEN flush \o <<(<<text[i]>>)>> \o RawTokens(text, i + 1, <<>>)
    ELSE flush \o RawTokens(text, i + 1, <<>>)

\* a tokenizer that adds no sentinels
tokenizeBare(text) == RawTokens(text, 1, <<>>)

tokenize(text) == <<BOS>> \o RawTokens(text, 1, <<>>) \o <<EOS>>

(***************************************************************************)
(* The orchestrator's inputs.                                              *)
(***************************************************************************)
\* what the input field may hold when process() reads it
PromptSet == { <<" ">>, <<"#">>, <<" ", "a">> }

\* the delta.content of the i-th data line of the response the orchestrator
\* is served
TokenAt(i) == IF i % 2 = 1 THEN " Hi" ELSE " "

\* the characters of such a token
TokenText(token) == IF token = " Hi" THEN <<" ", "H", "i">> ELSE <<" ">>

ErrorSet == { "API Error: 500 - ", "Failed to fetch" }

Stages == <<"tokenization", "embeddings", "attention", "ffn", "output">>
StageSet == { Stages[i] : i \in 1..5 }

Runs == 1..MaxRuns

VARIABLES
    isProcessing,      \* App.isProcessing
    submitDisabled,    \* App.elements.submitBtn.disabled
    currentView,       \* App.currentView
    layerStatus,       \* class of each layer container: waiting/active/completed
    layerText,         \* status text of each layer
    responseOutput,    \* App.elements.responseOutput.textContent, as a sequence of pieces
    cursorActive,      \* response cursor has class 'active'
    tokens,            \* TokenizerVisualizer.tokens
    embeddings,        \* EmbeddingsVisualizer.embeddings.length
    attentionWeights,  \* AttentionVisualizer.attentionWeights.length
    currentTokens,     \* OutputVisualizer.currentTokens is non-empty
    isAnimating,       \* NetworkDiagram.isAnimating
    networkStatus,     \* NetworkDiagram status text
    nruns,             \* process() invocations that passed the entry guards
    runs,              \* the position and the locals of each such invocation
    lastCall,          \* the last task: the call of process() or reset() it was,
                       \* and the calls of NetworkDiagram.animate it made
    sPc,               \* streamCompletion: where the function is
    sBody,             \* the body of the response, as the server sends it
    sPos,              \* how much of the body the reads have delivered
    sBuffer,           \* the local variable buffer
    sCalls,            \* the callbacks invoked so far, in order
    sThrows,           \* which of the caller's callbacks throw
    speedMultiplier,   \* CONFIG.speedMultiplier, a fraction num/den
    currentSpeed,      \* App.currentSpeed
    speedCalls,        \* the arguments setSpeed was called with, in order
    timingResult,      \* the last getTiming(key) call and what it returned
    tText,             \* the text TokenizerVisualizer.tokenize was last given
    aInput,            \* the token list generateAttentionWeights was last given
    aTokens,           \* AttentionVisualizer.tokens
    aMatrix,           \* AttentionVisualizer.attentionWeights, entry by entry
    eInput,            \* the token list generateEmbeddings was last given
    eResult,           \* EmbeddingsVisualizer.embeddings, entry by entry
    eSeen,             \* the vector each token text got when it was first embedded
    dSelected,         \* the selectedToken generateDistribution was last given
    dProbs,            \* OutputVisualizer.currentTokens, entry by entry
    anim,              \* the animators: their surfaces, their pending timers,
                       \* the promises resolved, NetworkDiagram's own fields
    sched              \* the clock of one stage animation: its pending timers
                       \* with the delays they were set with, what it revealed

appVars == <<isProcessing, submitDisabled, currentView, layerStatus, layerText,
             responseOutput, cursorActive, tokens, embeddings, attentionWeights,
             currentTokens, isAnimating, networkStatus, nruns, runs, lastCall>>

streamVars == <<sPc, sBody, sPos, sBuffer, sCalls, sThrows>>

configVars == <<speedMultiplier, currentSpeed, speedCalls, timingResult>>

\* the state the data providers are checked on, each on its own
fnVars == <<aInput, aTokens, aMatrix, eInput, eResult, eSeen, dSelected, dProbs>>

\* the state the animators are checked on, as an interface of their own
animVars == <<anim, sched>>

vars == <<appVars, streamVars, configVars, tText, fnVars, animVars>>

Label(txt, n) == [txt |-> txt, n |-> n]

\* a task of the orchestrator: the streaming client's own state is that of
\* the specification StreamSpec and is left alone
CallNet(op, arg, net) ==
    /\ lastCall' = [op |-> op, arg |-> arg, net |-> net]
    /\ UNCHANGED <<streamVars, configVars, tText, animVars, fnVars>>

\* a task that does not call NetworkDiagram.animate
Call(op, arg) == CallNet(op, arg, <<>>)

IdleRun ==
    [pc |-> "idle", k |-> 0, n |-> 0, grace |-> FALSE, st |-> "none",
     tokenCount |-> 0, firstToken |-> TRUE, intr |-> FALSE, err |-> FALSE,
     log |-> <<>>, vis |-> <<>>, ntok |-> 0, netAtSubmit |-> FALSE,
     data |-> [tokenize |-> 0, generateEmbeddings |-> 0,
               generateAttentionWeights |-> 0, generateDistribution |-> 0]]

\* positions of a process() invocation that has passed the guards and has
\* not left the function
InProgressPcs ==
    {"tok", "tokDelay", "emb", "embDelay", "attn", "attnDelay", "ffn",
     "ffnDelay", "output", "hung"}

\* positions where a timer or the stream will resume the invocation
PendingPcs == InProgressPcs \ {"hung"}

AppInit ==
    /\ isProcessing = FALSE
    /\ submitDisabled = FALSE
    /\ currentView = "layers"
    /\ layerStatus = [s \in StageSet |-> "waiting"]
    /\ layerText = [s \in StageSet |-> Label("Waiting", 0)]
    /\ responseOutput = <<>>
    /\ cursorActive = FALSE
    /\ tokens = <<>>
    /\ embeddings = 0
    /\ attentionWeights = 0
    /\ currentTokens = FALSE
    /\ isAnimating = FALSE
    /\ networkStatus = "Ready"
    /\ nruns = 0
    /\ runs = [r \in Runs |-> IdleRun]
    /\ lastCall = [op |-> "init", arg |-> <<>>, net |-> <<>>]

StreamIdle ==
    /\ sPc = "idle"
    /\ sBody = <<>>
    /\ sPos = 0
    /\ sBuffer = <<>>
    /\ sCalls = <<>>
    /\ sThrows = [c \in {"onToken", "onComplete", "onError"} |-> FALSE]

\* a fraction; den > 0
Rat(n, d) == [num |-> n, den |-> d]

\* a JavaScript number: a finite fraction, Infinity or NaN
Num(n, d) == [kind |-> "number", num |-> n, den |-> d]
Infinity == [kind |-> "Infinity", num |-> 0, den |-> 1]
NaN == [kind |-> "NaN", num |-> 0, den |-> 1]

ConfigInit ==
    /\ speedMultiplier = Rat(1, 1)
    /\ currentSpeed = Rat(1, 1)
    /\ speedCalls = <<>>
    /\ timingResult = [key |-> "none", value |-> NaN, after |-> 0]

FnInit ==
    /\ tText = <<>>
    /\ aInput = <<>>
    /\ aTokens = <<>>
    /\ aMatrix = <<>>
    /\ eInput = <<>>
    /\ eResult = <<>>
    /\ eSeen = {}
    /\ dSelected = ""
    /\ dProbs = <<>>

Animators ==
    {"tokenizer", "embeddings", "attention", "ffn", "output", "network"}

\* the animators as their object literals leave them, before init()
\* no stage animation is running
SchedIdle ==
    [stage |-> "idle", now |-> 0, seq |-> 0, pending |-> {}, shown |-> <<>>,
     n |-> 0, cellDelay |-> NaN, cellAt |-> 0, currentCell |-> 0]

AnimInit ==
    /\ anim = [container |-> FALSE,
               thrown |-> FALSE,
               live |-> [a \in Animators |-> FALSE],
               surface |-> [a \in Animators |-> {}],
               chains |-> {},
               resolved |-> {},
               calls |-> 0,
               progress |-> 0,
               particles |-> {},
               animationFrame |-> FALSE]
    /\ sched = SchedIdle

Init == AppInit /\ StreamIdle /\ ConfigInit /\ FnInit /\ AnimInit

(***************************************************************************)
(* App.updateLayerStatus, as seen by the invocation that calls it: the     *)
(* shared status record changes and the invocation's log grows.            *)
(***************************************************************************)
Mark(run, stage, status) == [run EXCEPT !.log = Append(@, <<stage, status>>)]

\* the invocation has called a synthetic data provider
Invoked(run, provider) == [run EXCEPT !.data[provider] = @ + 1]

\* App.reset marks the invocations it interrupts (a history field)
Interrupt(rs) ==
    [r \in Runs |->
        IF rs[r].pc \in InProgressPcs
        THEN [rs[r] EXCEPT !.intr = TRUE]
        ELSE rs[r]]

(***************************************************************************)
(* App.reset().                                                            *)
(***************************************************************************)
\* a reset() that leaves the busy flag as it finds it
ResetBusyKept == isProcessing

\* a reset that leaves the stage statuses alone
ResetStatusKept(layer) == layerStatus[layer]

\* the status reset() gives a stage: updateLayerStatus(layer, 'waiting', ...)
ResetStatus(layer) == "waiting"

\* what reset() writes to this.isProcessing
ResetBusy == FALSE

reset ==
    /\ layerStatus' = [s \in StageSet |-> ResetStatus(s)]
    /\ layerText' = [s \in StageSet |-> Label("Waiting", 0)]
    /\ tokens' = <<>>
    /\ embeddings' = 0
    /\ attentionWeights' = 0
    /\ currentTokens' = FALSE
    /\ isAnimating' = FALSE
    /\ networkStatus' = "Ready"
    /\ responseOutput' = <<>>
    /\ cursorActive' = FALSE
    /\ submitDisabled' = FALSE
    /\ isProcessing' = ResetBusy
    /\ runs' = Interrupt(runs)
    /\ Call("reset", <<>>)
    /\ UNCHANGED <<currentView, nruns>>

(***************************************************************************)
(* App.switchView(view).                                                   *)
(***************************************************************************)
switchView(view) ==
    /\ currentView' = view
    /\ Call("other", <<>>)
    /\ UNCHANGED <<isProcessing, submitDisabled, layerStatus, layerText,
                   responseOutput, cursorActive, tokens, embeddings,
                   attentionWeights, currentTokens, isAnimating, networkStatus,
                   nruns, runs>>

(***************************************************************************)
(* App.process(): the entry guards, then reset(), then the synchronous     *)
(* part of the pipeline up to the first await (the tokenizer's animation). *)
(***************************************************************************)
\* entry guards that let a submit through while a run is busy
RejectedWhenEmpty(prompt) == Trim(prompt) = <<>>

Rejected(prompt) == isProcessing \/ Trim(prompt) = <<>>

\* the invocation's record when TokenizerVisualizer.animate() has returned
TokenizerAnimate(toks) ==
    LET started == Mark([IdleRun EXCEPT !.pc = "tok", !.n = Len(toks)],
                        "tokenization", "active") IN
    IF Len(toks) = 0
    THEN Mark([started EXCEPT !.pc = "tokDelay", !.n = 0],
              "tokenization", "completed")
    ELSE started

\* a call NetworkDiagram.animate(numTokens): the view it was made in, how
\* many stage marks the invocation had made by then, and the argument
NetworkAnimate(view, marks, numTokens) ==
    [view |-> view, marks |-> marks, numTokens |-> numTokens]

\* this.currentView === 'network' ? NetworkDiagram.animate(
\* TokenizerVisualizer.getTokens().length || 5) : Promise.resolve(), right
\* after reset() has emptied the token list and before runTokenization
networkPromise ==
    IF currentView = "network" THEN <<NetworkAnimate("network", 0, 5)>>
    ELSE <<>>

process(prompt) ==
    /\ CallNet("process", prompt,
               IF Rejected(prompt) THEN <<>> ELSE networkPromise)
    /\ IF Rejected(prompt)
       THEN UNCHANGED <<isProcessing, submitDisabled, currentView, layerStatus,
                        layerText, responseOutput, cursorActive, tokens,
                        embeddings, attentionWeights, currentTokens,
                        isAnimating, networkStatus, nruns, runs>>
       ELSE /\ nruns < MaxRuns
            /\ LET toks == tokenize(Trim(prompt))
                   run  == Invoked([TokenizerAnimate(toks) EXCEPT
                                       !.ntok = Len(toks),
                                       !.netAtSubmit = (networkPromise # <<>>)],
                                   "tokenize") IN
               /\ nruns' = nruns + 1
               /\ isProcessing' = TRUE
               /\ submitDisabled' = TRUE
               /\ layerStatus' =
                     [s \in StageSet |->
                        IF s = "tokenization"
                        THEN (IF run.pc = "tok" THEN "active" ELSE "completed")
                        ELSE "waiting"]
               /\ layerText' =
                     [s \in StageSet |->
                        IF s = "tokenization"
                        THEN (IF run.pc = "tok" THEN Label("Processing", 0)
                                                ELSE Label("tokens", Len(toks)))
                        ELSE Label("Waiting", 0)]
               /\ tokens' = toks
               /\ embeddings' = 0
               /\ attentionWeights' = 0
               /\ currentTokens' = FALSE
               /\ isAnimating' = (currentView = "network")
               /\ networkStatus' =
                     IF currentView = "network" THEN "Processing" ELSE "Ready"
               /\ responseOutput' = <<>>
               /\ cursorActive' = FALSE
               /\ runs' = [Interrupt(runs) EXCEPT ![nruns + 1] = run]
               /\ UNCHANGED currentView

(***************************************************************************)
(* Frames of the timer and stream tasks.                                   *)
(***************************************************************************)
AsyncTask == Call("other", <<>>)

OnlyRuns ==
    UNCHANGED <<isProcessing, submitDisabled, currentView, layerStatus,
                layerText, responseOutput, cursorActive, tokens, embeddings,
                attentionWeights, currentTokens, isAnimating, networkStatus,
                nruns>>

\* a stage is marked completed and the layer transition delay is awaited
StageCompleted(r, stage, delayPc, label) ==
    /\ layerStatus' = [layerStatus EXCEPT ![stage] = "completed"]
    /\ layerText' = [layerText EXCEPT ![stage] = label]
    /\ runs' = [runs EXCEPT ![r] =
                  Mark([@ EXCEPT !.pc = delayPc, !.k = 0, !.n = 0,
                                 !.grace = FALSE], stage, "completed")]

(***************************************************************************)
(* TokenizerVisualizer.animate: the timer of token k fires.  It compares   *)
(* its index with the length of the token list as it is now.               *)
(***************************************************************************)
TokenTimer(r) ==
    /\ runs[r].pc = "tok"
    /\ runs[r].k < runs[r].n
    /\ LET last  == runs[r].k = Len(tokens) - 1
           grace == runs[r].grace \/ last
           k     == runs[r].k + 1 IN
       runs' = [runs EXCEPT ![r] =
                  [@ EXCEPT !.k = k, !.grace = grace,
                            !.pc = IF k = runs[r].n /\ ~grace THEN "hung" ELSE "tok"]]
    /\ AsyncTask
    /\ OnlyRuns

\* setTimeout(resolve, tokenDelay) fires: runTokenization continues
TokenizerResolve(r) ==
    /\ runs[r].pc = "tok"
    /\ runs[r].grace
    /\ StageCompleted(r, "tokenization", "tokDelay", Label("tokens", Len(tokens)))
    /\ AsyncTask
    /\ UNCHANGED <<isProcessing, submitDisabled, currentView, responseOutput,
                   cursorActive, tokens, embeddings, attentionWeights,
                   currentTokens, isAnimating, networkStatus, nruns>>

(***************************************************************************)
(* The layer transition after tokenization ends: process() starts the      *)
(* network diagram in layers view, then runEmbeddings() up to its await.   *)
(***************************************************************************)
StartNetwork == currentView = "layers"

\* a process() that does not wait for the tokenizer's completion signal
TokenizationNotAwaited(r) == runs[r].pc \in {"tok", "tokDelay"}

\* await this.runTokenization(prompt) has returned
TokenizationAwaited(r) == runs[r].pc = "tokDelay"

runEmbeddings(r) ==
    /\ TokenizationAwaited(r)
    /\ LET shown == Min(Len(tokens), attentionMaxTokens)
           run   == Invoked(Mark([runs[r] EXCEPT !.ntok = 0,
                                                 !.netAtSubmit = FALSE],
                                 "embeddings", "active"),
                            "generateEmbeddings") IN
       /\ embeddings' = Len(tokens)
       /\ IF shown = 0
          THEN /\ layerStatus' = [layerStatus EXCEPT !["embeddings"] = "completed"]
               /\ layerText' = [layerText EXCEPT !["embeddings"] = Label("Encoded", 0)]
               /\ runs' = [runs EXCEPT ![r] =
                             Mark([run EXCEPT !.pc = "embDelay"],
                                  "embeddings", "completed")]
          ELSE /\ layerStatus' = [layerStatus EXCEPT !["embeddings"] = "active"]
               /\ layerText' = [layerText EXCEPT !["embeddings"] = Label("Encoding", 0)]
               /\ runs' = [runs EXCEPT ![r] =
                             [run EXCEPT !.pc = "emb", !.k = 0, !.n = shown,
                                         !.grace = FALSE]]
    /\ IF StartNetwork
       THEN isAnimating' = TRUE /\ networkStatus' = "Processing"
       ELSE UNCHANGED <<isAnimating, networkStatus>>
    /\ CallNet("other", <<>>,
               IF StartNetwork
               THEN <<NetworkAnimate("layers", Len(runs[r].log), Len(tokens))>>
               ELSE <<>>)
    /\ UNCHANGED <<isProcessing, submitDisabled, currentView, responseOutput,
                   cursorActive, tokens, attentionWeights, currentTokens, nruns>>

\* EmbeddingsVisualizer.animate: the timer of embedding k fires; the last
\* one (of the list captured at animate) schedules the resolve
EmbeddingTimer(r) ==
    /\ runs[r].pc = "emb"
    /\ runs[r].k < runs[r].n
    /\ runs' = [runs EXCEPT ![r] =
                  [@ EXCEPT !.k = @ + 1,
                            !.grace = (runs[r].k = runs[r].n - 1)]]
    /\ AsyncTask
    /\ OnlyRuns

EmbeddingsResolve(r) ==
    /\ runs[r].pc = "emb"
    /\ runs[r].grace
    /\ StageCompleted(r, "embeddings", "embDelay", Label("Encoded", 0))
    /\ AsyncTask
    /\ UNCHANGED <<isProcessing, submitDisabled, currentView, responseOutput,
                   cursorActive, tokens, embeddings, attentionWeights,
                   currentTokens, isAnimating, networkStatus, nruns>>

(***************************************************************************)
(* runAttention() up to its await: AttentionVisualizer.animate clears,     *)
(* generates the weights and draws cell 0 at once.                         *)
(***************************************************************************)
runAttention(r) ==
    /\ runs[r].pc = "embDelay"
    /\ LET n   == Min(Len(tokens), attentionMaxTokens)
           run == Invoked(Mark(runs[r], "attention", "active"),
                          "generateAttentionWeights") IN
       /\ attentionWeights' = n
       /\ IF n = 0
          THEN /\ layerStatus' = [layerStatus EXCEPT !["attention"] = "completed"]
               /\ layerText' = [layerText EXCEPT !["attention"] = Label("Computed", 0)]
               /\ runs' = [runs EXCEPT ![r] =
                             Mark([run EXCEPT !.pc = "attnDelay"],
                                  "attention", "completed")]
          ELSE /\ layerStatus' = [layerStatus EXCEPT !["attention"] = "active"]
               /\ layerText' = [layerText EXCEPT !["attention"] = Label("Computing", 0)]
               /\ runs' = [runs EXCEPT ![r] =
                             [run EXCEPT !.pc = "attn", !.k = 1, !.n = n,
                                         !.grace = FALSE]]
    /\ AsyncTask
    /\ UNCHANGED <<isProcessing, submitDisabled, currentView, responseOutput,
                   cursorActive, tokens, embeddings, currentTokens, isAnimating,
                   networkStatus, nruns>>

\* drawCell fires: past the last cell it draws the labels and schedules the
\* resolve; otherwise it reads this.attentionWeights[i][j] of the matrix as
\* it is now, which throws when row i is gone, and the chain ends there
drawCell(r) ==
    /\ runs[r].pc = "attn"
    /\ ~runs[r].grace
    /\ LET total == runs[r].n * runs[r].n
           i     == runs[r].k \div runs[r].n IN
       runs' = [runs EXCEPT ![r] =
                  IF runs[r].k >= total THEN [@ EXCEPT !.grace = TRUE]
                  ELSE IF i >= attentionWeights THEN [@ EXCEPT !.pc = "hung"]
                  ELSE [@ EXCEPT !.k = @ + 1]]
    /\ AsyncTask
    /\ OnlyRuns

AttentionResolve(r) ==
    /\ runs[r].pc = "attn"
    /\ runs[r].grace
    /\ StageCompleted(r, "attention", "attnDelay", Label("Computed", 0))
    /\ AsyncTask
    /\ UNCHANGED <<isProcessing, submitDisabled, currentView, responseOutput,
                   cursorActive, tokens, embeddings, attentionWeights,
                   currentTokens, isAnimating, networkStatus, nruns>>

(***************************************************************************)
(* runFFN() up to its await: FFNVisualizer.animate runs animateLayer(0)    *)
(* at once, which schedules animateLayer(1).                               *)
(***************************************************************************)
runFFN(r) ==
    /\ runs[r].pc = "attnDelay"
    /\ layerStatus' = [layerStatus EXCEPT !["ffn"] = "active"]
    /\ layerText' = [layerText EXCEPT !["ffn"] = Label("Processing", 0)]
    /\ runs' = [runs EXCEPT ![r] =
                  [Mark(@, "ffn", "active") EXCEPT
                      !.pc = "ffn", !.k = 1, !.n = ffnLayers, !.grace = FALSE]]
    /\ AsyncTask
    /\ UNCHANGED <<isProcessing, submitDisabled, currentView, responseOutput,
                   cursorActive, tokens, embeddings, attentionWeights,
                   currentTokens, isAnimating, networkStatus, nruns>>

\* animateLayer(k) fires
animateLayer(r) ==
    /\ runs[r].pc = "ffn"
    /\ ~runs[r].grace
    /\ runs' = [runs EXCEPT ![r] =
                  IF runs[r].k >= runs[r].n THEN [@ EXCEPT !.grace = TRUE]
                  ELSE [@ EXCEPT !.k = @ + 1]]
    /\ AsyncTask
    /\ OnlyRuns

FFNResolve(r) ==
    /\ runs[r].pc = "ffn"
    /\ runs[r].grace
    /\ StageCompleted(r, "ffn", "ffnDelay", Label("Processed", 0))
    /\ AsyncTask
    /\ UNCHANGED <<isProcessing, submitDisabled, currentView, responseOutput,
                   cursorActive, tokens, embeddings, attentionWeights,
                   currentTokens, isAnimating, networkStatus, nruns>>

(***************************************************************************)
(* runOutputGeneration(): the output stage is marked active, the cursor is *)
(* shown and ZenMuxAPI.streamCompletion is called (its fetch is awaited).  *)
(***************************************************************************)
runOutputGeneration(r) ==
    /\ runs[r].pc = "ffnDelay"
    /\ layerStatus' = [layerStatus EXCEPT !["output"] = "active"]
    /\ layerText' = [layerText EXCEPT !["output"] = Label("Generating", 0)]
    /\ cursorActive' = TRUE
    /\ runs' = [runs EXCEPT ![r] =
                  [Mark(@, "output", "active") EXCEPT
                      !.pc = "output", !.st = "fetch", !.tokenCount = 0,
                      !.firstToken = TRUE]]
    /\ AsyncTask
    /\ UNCHANGED <<isProcessing, submitDisabled, currentView, responseOutput,
                   tokens, embeddings, attentionWeights, currentTokens,
                   isAnimating, networkStatus, nruns>>

\* fetch resolves with response.ok and the read loop starts
StreamOpen(r) ==
    /\ runs[r].pc = "output"
    /\ runs[r].st = "fetch"
    /\ runs' = [runs EXCEPT ![r].st = "reading"]
    /\ AsyncTask
    /\ OnlyRuns

\* a callback that takes every token for the first
FirstTokenKept == TRUE

\* firstToken after the first token: firstToken = false
FirstTokenAfter == FALSE

\* the call onToken makes to the output animator: animate(token.trim()) for
\* the first token, quickUpdate(token) for the others
VisualizerCall(first, token) ==
    IF first THEN [op |-> "animate", arg |-> Trim(TokenText(token))]
    ELSE [op |-> "quickUpdate", arg |-> TokenText(token)]

\* the read loop calls onToken(token)
onToken(r) ==
    /\ runs[r].pc = "output"
    /\ runs[r].st = "reading"
    /\ runs[r].tokenCount < MaxTokens
    /\ responseOutput' = Append(responseOutput, TokenAt(runs[r].tokenCount + 1))
    /\ currentTokens' = (runs[r].firstToken \/ currentTokens)
    /\ layerStatus' = [layerStatus EXCEPT !["output"] = "active"]
    /\ layerText' = [layerText EXCEPT !["output"] =
                        Label("tokens", runs[r].tokenCount + 1)]
    /\ runs' = [runs EXCEPT ![r] =
                  [Mark(@, "output", "active") EXCEPT
                      !.tokenCount = @ + 1,
                      !.firstToken = @ /\ FirstTokenAfter,
                      !.vis = Append(@, VisualizerCall(runs[r].firstToken,
                                           TokenAt(runs[r].tokenCount + 1))),
                      !.data["generateDistribution"] =
                          IF runs[r].firstToken THEN @ + 1 ELSE @]]
    /\ AsyncTask
    /\ UNCHANGED <<isProcessing, submitDisabled, currentView, cursorActive,
                   tokens, embeddings, attentionWeights, isAnimating,
                   networkStatus, nruns>>

\* the finally block of process()
processFinally ==
    /\ isProcessing' = FALSE
    /\ submitDisabled' = FALSE
    /\ cursorActive' = FALSE

\* the read loop calls onComplete(): the promise of runOutputGeneration
\* resolves and process() runs to its end
onComplete(r) ==
    /\ runs[r].pc = "output"
    /\ runs[r].st = "reading"
    /\ layerStatus' = [layerStatus EXCEPT !["output"] = "completed"]
    /\ layerText' = [layerText EXCEPT !["output"] =
                        Label("tokens", runs[r].tokenCount)]
    /\ runs' = [runs EXCEPT ![r] =
                  [Mark(@, "output", "completed") EXCEPT
                      !.pc = "done", !.st = "closed"]]
    /\ processFinally
    /\ AsyncTask
    /\ UNCHANGED <<currentView, responseOutput, tokens, embeddings,
                   attentionWeights, currentTokens, isAnimating, networkStatus,
                   nruns>>

\* the catch block of process()
processCatch(message) == responseOutput' = <<"Error: ", message>>

\* fetch fails, the status is not a success or a read fails: streamCompletion
\* calls onError(error), the promise rejects and process() runs its catch
\* and finally blocks
onError(r, message) ==
    /\ runs[r].pc = "output"
    /\ runs[r].st \in {"fetch", "reading"}
    /\ layerStatus' = [layerStatus EXCEPT !["output"] = "waiting"]
    /\ layerText' = [layerText EXCEPT !["output"] = Label("Error", 0)]
    /\ runs' = [runs EXCEPT ![r] =
                  [Mark(@, "output", "waiting") EXCEPT
                      !.pc = "done", !.st = "closed", !.err = TRUE]]
    /\ processCatch(message)
    /\ processFinally
    /\ AsyncTask
    /\ UNCHANGED <<currentView, tokens, embeddings, attentionWeights,
                   currentTokens, isAnimating, networkStatus, nruns>>

(***************************************************************************)
(* The orchestrator's specification.                                       *)
(***************************************************************************)
TimerTask(r) ==
    \/ TokenTimer(r)
    \/ TokenizerResolve(r)
    \/ runEmbeddings(r)
    \/ EmbeddingTimer(r)
    \/ EmbeddingsResolve(r)
    \/ runAttention(r)
    \/ drawCell(r)
    \/ AttentionResolve(r)
    \/ runFFN(r)
    \/ animateLayer(r)
    \/ FFNResolve(r)
    \/ runOutputGeneration(r)

StreamTask(r) ==
    \/ StreamOpen(r)
    \/ onToken(r)
    \/ onComplete(r)
    \/ \E message \in ErrorSet : onError(r, message)

UserTask ==
    \/ \E prompt \in PromptSet : process(prompt)
    \/ reset
    \/ \E view \in {"layers", "network"} : switchView(view)

AsyncNext == \E r \in Runs : TimerTask(r) \/ StreamTask(r)

Next == UserTask \/ AsyncNext

Spec == Init /\ [][Next]_vars

\* timers fire and the streaming client makes progress
FairSpec == Spec /\ WF_vars(AsyncNext)

(***************************************************************************)
(* Properties of the orchestrator.                                         *)
(***************************************************************************)
AllWaiting == \A s \in StageSet : layerStatus[s] = "waiting"

\* the latest accepted submit was interrupted by reset(), and nothing was
\* submitted since
InterruptedAndQuiet == nruns > 0 /\ runs[nruns].intr

\* the invocations that have called streamCompletion
StreamRequests == { r \in Runs : runs[r].st # "none" }

\* C1: at every instant at most one invocation of process() has passed the
\* entry guards and still has a continuation pending
C1_AtMostOneRun ==
    Cardinality({ r \in Runs : runs[r].pc \in PendingPcs }) <= 1

\* C2: once reset() has interrupted a run and until the next submit, every
\* stage status stays 'waiting', the response surface stays empty, no
\* streaming request is issued and isProcessing stays false
C2_InterruptedRunInert ==
    [][ (InterruptedAndQuiet /\ InterruptedAndQuiet') =>
            /\ AllWaiting'
            /\ responseOutput' = <<>>
            /\ StreamRequests' = StreamRequests
            /\ isProcessing' = FALSE ]_vars

\* C3: whenever the system is busy it is eventually idle again, with the
\* submit button enabled (timers fire, the streaming client ends)
C3_NeverPermanentlyBusy ==
    isProcessing ~> (~isProcessing /\ ~submitDisabled)

\* a run has ended through the streaming client's onError and the system is idle
C3_Witness ==
    \E r \in Runs : runs[r].pc = "done" /\ runs[r].err /\ ~isProcessing
                    /\ ~submitDisabled

\* C4: when reset() returns, all five stage statuses are 'waiting' and
\* isProcessing is false
C4_ResetPostcondition ==
    [][ lastCall'.op = "reset" => (AllWaiting' /\ isProcessing' = FALSE) ]_vars

\* reset() has just returned in the middle of the attention stage, whose
\* drawCell timer is still pending
C4_Witness ==
    /\ lastCall.op = "reset"
    /\ \E r \in Runs : runs[r].pc = "attn" /\ runs[r].intr /\ ~runs[r].grace
    /\ AllWaiting
    /\ ~isProcessing

\* C5: a process() call made while isProcessing is true, or with a prompt
\* that is empty after trimming, changes nothing
C5_RejectedSubmitNoOp ==
    [][ (lastCall'.op = "process" /\ (isProcessing \/ Trim(lastCall'.arg) = <<>>)) =>
            UNCHANGED <<isProcessing, submitDisabled, currentView, layerStatus,
                        layerText, responseOutput, cursorActive, tokens,
                        embeddings, attentionWeights, currentTokens,
                        isAnimating, networkStatus, nruns, runs>> ]_vars

\* process() has just been called with a non-empty prompt while a run is busy
C5_Witness ==
    /\ lastCall.op = "process"
    /\ Trim(lastCall.arg) # <<>>
    /\ isProcessing
    /\ \E r \in Runs : runs[r].pc = "attn"

\* the index of a stage in the pipeline order
StageIndex(stage) == CHOOSE i \in 1..5 : Stages[i] = stage

\* the marks of one invocation are in pipeline order: a stage is marked active
\* only after the stage before it was marked completed, and never after a
\* later stage was marked
OrderedLog(log) ==
    \A i \in 1..Len(log) :
        LET s == StageIndex(log[i][1]) IN
        /\ \A j \in 1..(i - 1) : StageIndex(log[j][1]) <= s
        /\ (log[i][2] = "active" /\ s > 1) =>
              \E j \in 1..(i - 1) : log[j] = <<Stages[s - 1], "completed">>

\* C6: within one run the stages start in the order tokenization,
\* embeddings, attention, ffn, output, each after the one before completed
C6_StagesInOrder == \A r \in Runs : OrderedLog(runs[r].log)

\* a run has gone through all five stages
C6_Witness ==
    \E r \in Runs : /\ runs[r].pc = "done"
                    /\ ~runs[r].err
                    /\ Len(runs[r].log) >= 10

\* C7: at most one of the five stage statuses is 'active'
C7_AtMostOneActive ==
    Cardinality({ s \in StageSet : layerStatus[s] = "active" }) <= 1

\* C8: when the streaming client invokes onError, the run ends with the
\* output stage 'waiting' and labelled 'Error', the response surface showing
\* the error, isProcessing false and the four earlier stages 'completed'
C8_ErrorEndsRun ==
    [][ (\E r \in Runs : ~runs[r].err /\ runs'[r].err) =>
            /\ layerStatus'["output"] = "waiting"
            /\ layerText'["output"] = Label("Error", 0)
            /\ \E m \in ErrorSet : responseOutput' = <<"Error: ", m>>
            /\ isProcessing' = FALSE
            /\ \A i \in 1..4 : layerStatus'[Stages[i]] = "completed" ]_vars

DataPrefix == <<"d","a","t","a",":"," ">>

DoneMark == <<"[","D","O","N","E","]">>

\* {"choices":[{"delta":{"content":"Hi"}}]}
JsonHi ==
    <<"{","\"","c","h","o","i","c","e","s","\"",":","[","{","\"","d","e",
      "l","t","a","\"",":","{","\"","c","o","n","t","e","n","t","\"",":",
      "\"","H","i","\"","}","}","]","}">>

\* {"choices":[{"delta":{"content":" "}}]}
JsonSpace ==
    <<"{","\"","c","h","o","i","c","e","s","\"",":","[","{","\"","d","e",
      "l","t","a","\"",":","{","\"","c","o","n","t","e","n","t","\"",":",
      "\""," ","\"","}","}","]","}">>

\* {"choices":[{"delta":{"content":""}}]}
JsonEmpty ==
    <<"{","\"","c","h","o","i","c","e","s","\"",":","[","{","\"","d","e",
      "l","t","a","\"",":","{","\"","c","o","n","t","e","n","t","\"",":",
      "\"","\"","}","}","]","}">>

\* {"choices":[]}
JsonNoChoice ==
    <<"{","\"","c","h","o","i","c","e","s","\"",":","[","]","}">>

\* {"choi  (a payload cut short)
JsonBroken == <<"{", "\"", "c", "h", "o", "i">>

LF == <<"\n">>

\* JSON.parse(data) followed by parsed.choices?.[0]?.delta?.content, on the
\* payloads the bodies below carry: every other text they hold is no JSON
JsonContent(data) ==
    IF data = JsonHi THEN [valid |-> TRUE, content |-> "Hi"]
    ELSE IF data = JsonSpace THEN [valid |-> TRUE, content |-> " "]
    ELSE IF data = JsonEmpty THEN [valid |-> TRUE, content |-> ""]
    ELSE IF data = JsonNoChoice THEN [valid |-> TRUE, content |-> ""]
    ELSE [valid |-> FALSE, content |-> ""]

\* scenario C of the specification: one event, a blank line, the sentinel
BodyHiDone ==
    DataPrefix \o JsonHi \o LF \o LF \o DataPrefix \o DoneMark \o LF \o LF

\* data lines follow the sentinel
BodyAfterDone ==
    DataPrefix \o JsonHi \o LF \o DataPrefix \o DoneMark \o LF
        \o DataPrefix \o JsonSpace \o LF

\* a broken payload and an event without content, and no sentinel at all
BodyNoDone ==
    DataPrefix \o JsonBroken \o LF \o DataPrefix \o JsonNoChoice \o LF
        \o DataPrefix \o JsonHi \o LF

\* the last event is not followed by a newline
BodyNoNewline ==
    DataPrefix \o JsonEmpty \o LF \o DataPrefix \o JsonHi

\* three events, the second without content, then the sentinel
BodyThreeDone ==
    DataPrefix \o JsonHi \o LF \o DataPrefix \o JsonEmpty \o LF
        \o DataPrefix \o JsonSpace \o LF \o DataPrefix \o DoneMark \o LF

BodySet ==
    { <<>>, BodyHiDone, BodyAfterDone, BodyNoDone, BodyNoNewline, BodyThreeDone }

StartsWith(text, prefix) ==
    /\ Len(text) >= Len(prefix)
    /\ SubSeq(text, 1, Len(prefix)) = prefix

\* text.split('\n')
RECURSIVE Split(_)
Split(text) ==
    IF \E i \in 1..Len(text) : text[i] = "\n"
    THEN LET i == CHOOSE i \in 1..Len(text) :
                     /\ text[i] = "\n"
                     /\ \A j \in 1..(i - 1) : text[j] # "\n"
         IN <<SubSeq(text, 1, i - 1)>> \o Split(SubSeq(text, i + 1, Len(text)))
    ELSE <<text>>

CallOf(cb, arg) == [cb |-> cb, arg |-> arg]

\* a test that lets an empty content through
HasContentWhenParsed(parsed) == parsed.valid

\* if (delta?.content), reached when JSON.parse did not throw
HasContent(parsed) == parsed.valid /\ parsed.content # ""

\* a line loop that lets the failure of JSON.parse out
ParseOutcomeAborts(parsed) == IF parsed.valid THEN "continue" ELSE "throw"

\* how the try block around JSON.parse is left: catch (e) {} swallows what
\* JSON.parse (and onToken) throws, and the loop goes on to the next line
ParseOutcome(parsed) == "continue"

\* a read loop that drops the incomplete last line
KeptNothing(pieces) == <<>>

\* buffer = lines.pop() || '': the incomplete last line is kept for the next read
Kept(pieces) == pieces[Len(pieces)]

\* a read loop that goes on after the sentinel
DoneOutcomeNoReturn(threw) == IF threw THEN "throw" ELSE "continue"

\* what follows onComplete() at the sentinel: return, unless it threw
DoneOutcome(threw) == IF threw THEN "throw" ELSE "return"

\* the for loop over the complete lines of one read, from line i on: the
\* callbacks it makes, and how it is left (it runs to the end, it returns from
\* streamCompletion, or an exception leaves the outer try block).  What
\* onToken throws is caught by the try block around JSON.parse.
RECURSIVE ProcessLines(_, _, _, _)
ProcessLines(lines, i, calls, throws) ==
    IF i > Len(lines) THEN [calls |-> calls, outcome |-> "continue"]
    ELSE IF ~StartsWith(lines[i], DataPrefix)
    THEN ProcessLines(lines, i + 1, calls, throws)
    ELSE LET data   == Trim(SubSeq(lines[i], 7, Len(lines[i])))
             parsed == JsonContent(data) IN
         IF data = DoneMark
         THEN LET after == Append(calls, CallOf("onComplete", ""))
                  out   == DoneOutcome(throws["onComplete"]) IN
              IF out = "continue"
              THEN ProcessLines(lines, i + 1, after, throws)
              ELSE [calls |-> after, outcome |-> out]
         ELSE IF ParseOutcome(parsed) = "throw"
         THEN [calls |-> calls, outcome |-> "throw"]
         ELSE IF HasContent(parsed)
         THEN ProcessLines(lines, i + 1,
                           Append(calls, CallOf("onToken", parsed.content)), throws)
         ELSE ProcessLines(lines, i + 1, calls, throws)

\* a catch block that reports completion
CatchCompletes(calls, message) ==
    /\ sCalls' = Append(calls, CallOf("onComplete", ""))
    /\ sPc' = "returned"

\* the catch block: onError(error); what onError throws rejects the promise
\* streamCompletion returned
Catch(calls, message) ==
    /\ sCalls' = Append(calls, CallOf("onError", message))
    /\ sPc' = IF sThrows["onError"] THEN "rejected" ELSE "returned"

StreamFrame ==
    UNCHANGED <<appVars, sBody, sThrows, configVars, tText, fnVars, animVars>>

\* one invocation, of any body and any callbacks
StreamInit ==
    /\ AppInit
    /\ ConfigInit
    /\ FnInit
    /\ AnimInit
    /\ sPc = "fetch"
    /\ sBody \in BodySet
    /\ sPos = 0
    /\ sBuffer = <<>>
    /\ sCalls = <<>>
    /\ sThrows \in [{"onToken", "onComplete", "onError"} -> BOOLEAN]

\* fetch rejects (the transport fails)
FetchRejected ==
    /\ sPc = "fetch"
    /\ Catch(sCalls, "Failed to fetch")
    /\ UNCHANGED <<sPos, sBuffer>>
    /\ StreamFrame

\* the response status is not a success
ResponseNotOk ==
    /\ sPc = "fetch"
    /\ Catch(sCalls, "API Error: 500 - ")
    /\ UNCHANGED <<sPos, sBuffer>>
    /\ StreamFrame

ResponseOk ==
    /\ sPc = "fetch"
    /\ sPc' = "reading"
    /\ UNCHANGED <<sPos, sBuffer, sCalls>>
    /\ StreamFrame

\* reader.read() delivers the next len characters of the body
Read(len) ==
    /\ sPc = "reading"
    /\ sPos + len <= Len(sBody)
    /\ LET pieces == Split(sBuffer \o SubSeq(sBody, sPos + 1, sPos + len))
           lines  == SubSeq(pieces, 1, Len(pieces) - 1)
           res    == ProcessLines(lines, 1, sCalls, sThrows) IN
       /\ sPos' = sPos + len
       /\ sBuffer' = Kept(pieces)
       /\ IF res.outcome = "throw"
          THEN Catch(res.calls, "onComplete threw")
          ELSE /\ sCalls' = res.calls
               /\ sPc' = IF res.outcome = "return" THEN "returned" ELSE "reading"
    /\ StreamFrame

\* a function that ends without a word when the body ends
AfterLoopSilent(calls) == calls

\* the statement after the read loop: onComplete()
AfterLoop(calls) == Append(calls, CallOf("onComplete", ""))

\* reader.read() reports done: the loop is left and onComplete() is called
ReadDone ==
    /\ sPc = "reading"
    /\ sPos = Len(sBody)
    /\ IF sThrows["onComplete"]
       THEN Catch(AfterLoop(sCalls), "onComplete threw")
       ELSE /\ sCalls' = AfterLoop(sCalls)
            /\ sPc' = "returned"
    /\ UNCHANGED <<sPos, sBuffer>>
    /\ StreamFrame

\* reader.read() rejects (the transport fails in the middle of the body)
ReadRejected ==
    /\ sPc = "reading"
    /\ Catch(sCalls, "network error")
    /\ UNCHANGED <<sPos, sBuffer>>
    /\ StreamFrame

StreamNext ==
    \/ FetchRejected
    \/ ResponseNotOk
    \/ ResponseOk
    \/ \E len \in 1..Len(sBody) : Read(len)
    \/ ReadDone
    \/ ReadRejected

StreamSpec == StreamInit /\ [][StreamNext]_vars

(***************************************************************************)
(* Properties of the streaming client.                                     *)
(***************************************************************************)
Terminal == {"onComplete", "onError"}

TerminalCalls == { i \in 1..Len(sCalls) : sCalls[i].cb \in Terminal }

StreamEnded == sPc \in {"returned", "rejected"}

\* C9: every invocation of streamCompletion invokes exactly one of
\* onComplete and onError, exactly once, whatever the status, the chunking
\* and the callbacks do
C9_ExactlyOneTerminal ==
    /\ Cardinality(TerminalCalls) <= 1
    /\ StreamEnded => Cardinality(TerminalCalls) = 1

\* C10: no onToken call comes after onComplete or onError
C10_NoTokenAfterTerminal ==
    \A i \in TerminalCalls :
        \A j \in (i + 1)..Len(sCalls) : sCalls[j].cb # "onToken"

\* the read that delivered the sentinel also delivered the data line after
\* it, and the invocation ended with onComplete
C10_Witness ==
    /\ sBody = BodyAfterDone
    /\ sPos = Len(sBody)
    /\ sPc = "returned"
    /\ \E i \in 1..Len(sCalls) : sCalls[i].cb = "onComplete"
    /\ \E i \in 1..Len(sCalls) : sCalls[i].cb = "onToken"

\* the failures of the request and of the transport, by the error they raise
RequestFailures == {"Failed to fetch", "API Error: 500 - "}
TransportFailures == RequestFailures \cup {"network error"}

ErrorCalls(messages) ==
    { i \in 1..Len(sCalls) : sCalls[i].cb = "onError" /\ sCalls[i].arg \in messages }

\* the onToken calls a body of data lines ending with the sentinel must give
ExpectedTokens(body) ==
    IF body = BodyHiDone THEN <<CallOf("onToken", "Hi")>>
    ELSE IF body = BodyThreeDone
    THEN <<CallOf("onToken", "Hi"), CallOf("onToken", " ")>>
    ELSE <<>>

\* the sentinel line of the body has been read
SentinelRead ==
    /\ sBody \in {BodyHiDone, BodyThreeDone}
    /\ StreamEnded
    /\ ErrorCalls(TransportFailures) = {}

\* C11: for a success response whose body is data lines followed by the
\* sentinel, onToken is called once per line with a non-empty content, with
\* that content and in order, then onComplete once; onError is not called
\* (the callbacks returning normally)
C11_TokensThenComplete ==
    SentinelRead =>
        LET expected == Append(ExpectedTokens(sBody), CallOf("onComplete", "")) IN
        /\ Len(sCalls) >= Len(expected)
        /\ SubSeq(sCalls, 1, Len(expected)) = expected
        /\ ~sThrows["onComplete"] => sCalls = expected

\* the three-event body has been read to its sentinel
C11_Witness ==
    /\ sBody = BodyThreeDone
    /\ sPc = "returned"
    /\ sPos = Len(sBody)
    /\ sCalls = <<CallOf("onToken", "Hi"), CallOf("onToken", " "),
                  CallOf("onComplete", "")>>

\* C12 as stated: whenever the status is not a success or the transport
\* fails, onError is the only callback invoked, and it is invoked once
C12_FailureOnlyError ==
    \A i \in ErrorCalls(TransportFailures) : sCalls = <<sCalls[i]>>

\* C12, amended: a non-success status or a failed request gives onError once
\* and no other callback (an invocation that ends before anything of a
\* non-empty body was read has failed: it has invoked onError and nothing
\* else); a failure of a later read gives onError once, as the last
\* callback, and no onComplete
C12_FailureEndsWithError ==
    /\ (StreamEnded /\ sPos = 0 /\ sBody # <<>>) =>
          /\ Len(sCalls) = 1
          /\ ErrorCalls(TransportFailures) = {1}
    /\ \A i \in ErrorCalls(RequestFailures) : sCalls = <<sCalls[i]>>
    /\ \A i \in ErrorCalls({"network error"}) :
          /\ i = Len(sCalls)
          /\ \A j \in 1..(i - 1) : sCalls[j].cb = "onToken"

\* the response had a non-success status and onError has been invoked
C12_Witness ==
    /\ StreamEnded
    /\ sCalls = <<CallOf("onError", "API Error: 500 - ")>>

\* C13: a data line whose payload is no JSON is skipped: it gives no onToken
\* and no onError, the stream goes on, and the well-formed line after it is
\* delivered
C13_BrokenLineSkipped ==
    sBody = BodyNoDone =>
        /\ sPc = "reading" => \A i \in 1..Len(sCalls) : sCalls[i].cb = "onToken"
        /\ sPos = Len(sBody) =>
              /\ Len(sCalls) >= 1
              /\ sCalls[1] = CallOf("onToken", "Hi")
              /\ \A i \in 2..Len(sCalls) : sCalls[i].cb # "onToken"

\* the broken line and the two lines after it have been read, and the stream
\* is still open
C13_Witness ==
    /\ sBody = BodyNoDone
    /\ sPos = Len(sBody)
    /\ sPc = "reading"
    /\ sCalls = <<CallOf("onToken", "Hi")>>

\* the callbacks of an invocation that gets the whole body in one read
SingleRead(body, throws) ==
    LET pieces == Split(body)
        res    == ProcessLines(SubSeq(pieces, 1, Len(pieces) - 1), 1, <<>>, throws)
        failed == CallOf("onError", "onComplete threw") IN
    IF res.outcome = "return" THEN res.calls
    ELSE IF res.outcome = "throw" THEN Append(res.calls, failed)
    ELSE IF throws["onComplete"]
    THEN res.calls \o <<CallOf("onComplete", ""), failed>>
    ELSE Append(res.calls, CallOf("onComplete", ""))

IsPrefix(a, b) == Len(a) <= Len(b) /\ SubSeq(b, 1, Len(a)) = a

\* C14: however the body is cut into reads, the callbacks are those of the
\* body delivered in one read: the same onToken calls in the same order and
\* the same terminal callback
C14_ChunkingIndependent ==
    LET whole == SingleRead(sBody, sThrows) IN
    /\ sPc = "reading" => IsPrefix(sCalls, whole)
    /\ (StreamEnded /\ ErrorCalls(TransportFailures) = {}) => sCalls = whole

\* a read has ended in the middle of the 'data: ' prefix of the second line
C14_Witness ==
    /\ sBody = BodyThreeDone
    /\ sPc = "reading"
    /\ sBuffer = <<"d", "a", "t">>
    /\ sCalls = <<CallOf("onToken", "Hi")>>

\* the body holds no sentinel line
NoSentinel == sBody \in {<<>>, BodyNoDone, BodyNoNewline}

CallsOf(cb) == { i \in 1..Len(sCalls) : sCalls[i].cb = cb }

\* C39: when the body of a success response ends without a sentinel line,
\* onComplete is invoked exactly once, after the last read and after every
\* onToken, and onError is not invoked (onComplete returning normally)
C39_CompleteWithoutSentinel ==
    NoSentinel =>
        /\ sPc = "reading" => CallsOf("onComplete") \cup CallsOf("onError") = {}
        /\ (StreamEnded /\ ErrorCalls(TransportFailures) = {}) =>
              /\ sPos = Len(sBody)
              /\ Cardinality(CallsOf("onComplete")) = 1
              /\ \A i \in CallsOf("onComplete") :
                    \A j \in 1..Len(sCalls) :
                        sCalls[j].cb = "onToken" <=> j < i
              /\ ~sThrows["onComplete"] =>
                    /\ CallsOf("onError") = {}
                    /\ sCalls[Len(sCalls)].cb = "onComplete"

\* the body without a sentinel was read to its end in more than one read and
\* the invocation returned after onComplete
C39_Witness ==
    /\ sBody = BodyNoDone
    /\ sPc = "returned"
    /\ sPos = Len(sBody)
    /\ ~sThrows["onComplete"]
    /\ sCalls = <<CallOf("onToken", "Hi"), CallOf("onComplete", "")>>

IsToken(call) == call.cb = "onToken"

\* the onToken calls the events of a body ask for: one per data line with a
\* non-empty content up to the sentinel, in order, the last line counted
\* also when no newline follows it
EventTokens(body) ==
    SelectSeq(ProcessLines(Split(body), 1, <<>>,
                           [c \in {"onToken", "onComplete", "onError"} |-> FALSE]).calls,
              IsToken)

\* C40: when the stream has ended, every event of the body with a non-empty
\* content has given an onToken call before the terminal callback, also a
\* last event line that no newline follows
C40_NoTokenLost ==
    (StreamEnded /\ ErrorCalls(TransportFailures) = {}) =>
        /\ SelectSeq(sCalls, IsToken) = EventTokens(sBody)
        /\ \A i \in TerminalCalls :
              \A j \in CallsOf("onToken") : j < i

(***************************************************************************)
(* The speed settings (js/config.js): CONFIG.timing, CONFIG.speedMultiplier,*)
(* getTiming and setSpeed, and App.setSpeed.                               *)
(***************************************************************************)
\* setSpeed calls in one behaviour
MaxSpeedCalls == 3

\* CONFIG.timing
timing ==
    [tokenDelay |-> 100, layerTransition |-> 500, embeddingBuild |-> 800,
     attentionDraw |-> 1000, ffnProcess |-> 1200, outputTokenDelay |-> 50]

TimingKeys == DOMAIN timing

\* the keys getTiming is called with: the configured ones and one that is not
KeySet == TimingKeys \cup {"unknownStage"}

\* the values setSpeed is called with: 0.5, 1, 2, 0 and -1
SpeedSet == { Rat(1, 2), Rat(1, 1), Rat(2, 1), Rat(0, 1), Rat(-1, 1) }

Abs(n) == IF n < 0 THEN -n ELSE n

RECURSIVE GCD(_, _)
GCD(a, b) == IF b = 0 THEN a ELSE GCD(b, a % b)

\* base / m as JavaScript computes it for a number base > 0
Divide(base, m) ==
    IF m.num = 0 THEN Infinity
    ELSE LET n == base * m.den * (IF m.num < 0 THEN -1 ELSE 1)
             d == Abs(m.num)
             g == GCD(Abs(n), d) IN
         Num(n \div g, d \div g)

\* getTiming(key): CONFIG.timing[key] / CONFIG.speedMultiplier, where a key
\* that is not configured gives undefined / m, which is NaN
getTimingAt(key, multiplier) ==
    IF key \in TimingKeys THEN Divide(timing[key], multiplier) ELSE NaN

getTiming(key) == getTimingAt(key, speedMultiplier)

\* a setSpeed that scales the multiplier in use
NewMultiplierScaled(old, multiplier) ==
    Rat(old.num * multiplier.num, old.den * multiplier.den)

\* what setSpeed(multiplier) writes: CONFIG.speedMultiplier = multiplier
NewMultiplier(old, multiplier) == multiplier

ConfigFrame == UNCHANGED <<appVars, streamVars, tText, fnVars, animVars>>

setSpeed(multiplier) ==
    /\ Len(speedCalls) < MaxSpeedCalls
    /\ speedMultiplier' = NewMultiplier(speedMultiplier, multiplier)
    /\ speedCalls' = Append(speedCalls, multiplier)
    /\ UNCHANGED <<currentSpeed, timingResult>>
    /\ ConfigFrame

\* App.setSpeed(speed): this.currentSpeed = speed; setSpeed(speed)
AppSetSpeed(speed) ==
    /\ Len(speedCalls) < MaxSpeedCalls
    /\ currentSpeed' = speed
    /\ speedMultiplier' = NewMultiplier(speedMultiplier, speed)
    /\ speedCalls' = Append(speedCalls, speed)
    /\ UNCHANGED timingResult
    /\ ConfigFrame

\* a caller asks for a duration
GetTimingCall(key) ==
    /\ timingResult' = [key |-> key, value |-> getTiming(key),
                        after |-> Len(speedCalls)]
    /\ UNCHANGED <<speedMultiplier, currentSpeed, speedCalls>>
    /\ ConfigFrame

ConfigNext ==
    \/ \E m \in SpeedSet : setSpeed(m)
    \/ \E m \in SpeedSet : AppSetSpeed(m)
    \/ \E key \in KeySet : GetTimingCall(key)

ConfigSpec == Init /\ [][ConfigNext]_vars

\* the multiplier the n-th setSpeed call asked for (1 before any call)
SpeedAfter(n) == IF n = 0 THEN Rat(1, 1) ELSE speedCalls[n]

LastSpeed == SpeedAfter(Len(speedCalls))

\* C16: getTiming signals an error for a key that is not a configured stage
\* timing, and returns no value for it
C16_UnknownKeyIsError ==
    timingResult.key \in (KeySet \ TimingKeys) => timingResult.value.kind = "error"

\* C17: the speed multiplier is greater than 0 in every reachable state
C17_MultiplierPositive == speedMultiplier.num > 0

\* C18: getTiming(key) is base[key] / m for the m of the last setSpeed call,
\* whatever was set before; after setSpeed(2) then setSpeed(1) it is the
\* base value again
C18_TimingFollowsLastSpeed ==
    /\ \A key \in TimingKeys : getTiming(key) = Divide(timing[key], LastSpeed)
    /\ timingResult.key \in TimingKeys =>
          timingResult.value =
              Divide(timing[timingResult.key], SpeedAfter(timingResult.after))
    /\ LastSpeed = Rat(1, 1) =>
          \A key \in TimingKeys : getTiming(key) = Num(timing[key], 1)

\* setSpeed(2) then setSpeed(1) were called, and a duration was asked for
C18_Witness ==
    /\ Len(speedCalls) >= 2
    /\ speedCalls[Len(speedCalls) - 1] = Rat(2, 1)
    /\ speedCalls[Len(speedCalls)] = Rat(1, 1)
    /\ timingResult = [key |-> "ffnProcess", value |-> Num(1200, 1),
                       after |-> Len(speedCalls)]

(***************************************************************************)
(* TokenizerVisualizer.tokenize (js/tokenizer.js), on its own: called with *)
(* any short text.                                                         *)
(***************************************************************************)
\* length of the texts made of TextAlphabet
MaxTextLen == 3

\* a word character, the apostrophe, a punctuation mark, a blank and a
\* character of neither class
TextAlphabet == {"a", "'", ",", " ", "#"}

HelloWorld == <<"H","e","l","l","o",","," ","w","o","r","l","d","!">>

\* a text that spells a sentinel
SentinelText == <<"<","B","O","S",">"," ","<","E","O","S",">">>

TextSet ==
    UNION { [1..n -> TextAlphabet] : n \in 0..MaxTextLen }
        \cup {HelloWorld, SentinelText}

\* TokenizerVisualizer.tokenize(text): this.tokens = [...]; return this.tokens
tokenizeCall(text) ==
    /\ tText' = text
    /\ tokens' = tokenize(text)
    /\ UNCHANGED <<isProcessing, submitDisabled, currentView, layerStatus,
                   layerText, responseOutput, cursorActive, embeddings,
                   attentionWeights, currentTokens, isAnimating,
                   networkStatus, nruns, runs, lastCall>>
    /\ UNCHANGED <<streamVars, configVars, fnVars, animVars>>

TokenizeNext == \E text \in TextSet : tokenizeCall(text)

TokenizeSpec == Init /\ [][TokenizeNext]_vars

\* tokenize has returned
Tokenized == tokens # <<>>

\* the tokens between the first and the last
Inner == SubSeq(tokens, 2, Len(tokens) - 1)

\* C19: tokenize returns at least two tokens, the first '<BOS>', the last
\* '<EOS>', and no token between them is a sentinel
C19_SentinelsAtTheEnds ==
    /\ Tokenized =>
          /\ Len(tokens) >= 2
          /\ tokens[1] = BOS
          /\ tokens[Len(tokens)] = EOS
          /\ \A i \in 2..(Len(tokens) - 1) : tokens[i] \notin {BOS, EOS}
    /\ tText # <<>> => Tokenized

\* tokenize was given the text '<BOS> <EOS>'
C19_Witness ==
    /\ tText = SentinelText
    /\ tokens = <<BOS, <<"B","O","S">>, <<"E","O","S">>, EOS>>

RECURSIVE Flatten(_)
Flatten(seqs) == IF seqs = <<>> THEN <<>> ELSE Head(seqs) \o Flatten(Tail(seqs))

\* the characters of a text that are word characters, apostrophes or
\* punctuation marks, in order
RECURSIVE KeptChars(_)
KeptChars(text) ==
    IF text = <<>> THEN <<>>
    ELSE IF Head(text) \in WordChars \cup PunctChars
    THEN <<Head(text)>> \o KeptChars(Tail(text))
    ELSE KeptChars(Tail(text))

IsWordToken(token) ==
    token # <<>> /\ \A i \in 1..Len(token) : token[i] \in WordChars

\* the places of a text where a maximal run of word characters starts
RunStarts(text) ==
    { i \in 1..Len(text) :
        text[i] \in WordChars /\ (i = 1 \/ text[i - 1] \notin WordChars) }

\* C20: between the sentinels every token is a maximal run of word
\* characters and apostrophes or one punctuation mark, every other character
\* is dropped and the order of the text is kept; 'Hello, world!' gives
\* <BOS> Hello , world ! <EOS>
C20_RunsAndMarks ==
    Tokenized =>
        /\ Flatten(Inner) = KeptChars(tText)
        /\ \A i \in 1..Len(Inner) :
              \/ IsWordToken(Inner[i])
              \/ Len(Inner[i]) = 1 /\ Inner[i][1] \in PunctChars \ WordChars
        /\ Cardinality({ i \in 1..Len(Inner) : IsWordToken(Inner[i]) })
              = Cardinality(RunStarts(tText))
        /\ tText = HelloWorld =>
              tokens = <<BOS, <<"H","e","l","l","o">>, <<",">>,
                         <<"w","o","r","l","d">>, <<"!">>, EOS>>

\* tokenize was given 'Hello, world!'
C20_Witness ==
    /\ tText = HelloWorld
    /\ Len(tokens) = 6

(***************************************************************************)
(* AttentionVisualizer.generateAttentionWeights (part_002), on its own.    *)
(* Weights are counted in thousandths; an entry of the matrix is the       *)
(* fraction w / sum, kept as its two terms.                                *)
(***************************************************************************)
\* length of the token lists the generator is given
MaxAttnInput == 14

\* Math.exp(-distance * 0.3), in thousandths, for the distances 0, 1, 2, ...
BaseWeightTable ==
    <<1000, 741, 549, 407, 301, 223, 165, 122, 91, 67, 50, 37, 27, 20, 15>>

baseWeight(distance) == BaseWeightTable[distance + 1]

\* 0.3 * Math.random(), in thousandths: Math.random() is in [0, 1)
NoiseLevels == <<0, 150, 299>>

\* the draws of one call: the draw for the entry (i, j) is level
\* (a*i + b*j + c) mod 3
NoisePatterns == (0..2) \X (0..2) \X (0..2)

noise(pattern, i, j) ==
    NoiseLevels[((pattern[1] * i + pattern[2] * j + pattern[3]) % 3) + 1]

RECURSIVE SumSeq(_)
SumSeq(row) == IF row = <<>> THEN 0 ELSE Head(row) + SumSeq(Tail(row))

\* a generator that does not cap the matrix
MatrixSizeUncapped(len) == len

\* n = Math.min(tokens.length, CONFIG.visualization.attentionMaxTokens)
MatrixSize(len) == Min(len, attentionMaxTokens)

\* a generator that leaves the weights as they are
NotNormalised(w, sum) == [num |-> w, den |-> 1000]

\* row.map(w => w / sum)
Normalised(w, sum) == [num |-> w, den |-> sum]

\* rows and columns are counted from 1 here, from 0 in the code
RawRow(n, i, pattern) ==
    [j \in 1..n |->
        IF j <= i THEN Min(1000, baseWeight(i - j) + noise(pattern, i, j))
        ELSE 0]

generateAttentionWeights(toks, pattern) ==
    LET n == MatrixSize(Len(toks)) IN
    [i \in 1..n |->
        LET row == RawRow(n, i, pattern)
            sum == SumSeq(row) IN
        [j \in 1..n |-> Normalised(row[j], sum)]]

AttnFrame ==
    /\ UNCHANGED <<isProcessing, submitDisabled, currentView, layerStatus,
                   layerText, responseOutput, cursorActive, tokens, embeddings,
                   currentTokens, isAnimating, networkStatus, nruns, runs,
                   lastCall>>
    /\ UNCHANGED <<streamVars, configVars, tText, animVars, eInput, eResult, eSeen,
                   dSelected, dProbs>>

\* AttentionVisualizer.generateAttentionWeights(tokens)
generateWeightsCall(len, pattern) ==
    LET toks == [i \in 1..len |-> i] IN
    /\ aInput' = toks
    /\ aTokens' = SubSeq(toks, 1, MatrixSize(len))
    /\ aMatrix' = generateAttentionWeights(toks, pattern)
    /\ attentionWeights' = MatrixSize(len)
    /\ AttnFrame

AttnNext ==
    \E len \in 0..MaxAttnInput : \E pattern \in NoisePatterns :
        generateWeightsCall(len, pattern)

AttnSpec == Init /\ [][AttnNext]_vars

IsZero(entry) == entry.num = 0 /\ entry.den # 0
IsPositive(entry) == entry.num > 0 /\ entry.den > 0

\* C21: the matrix is square of size n = min(number of tokens,
\* attentionMaxTokens), built from the first n tokens; entry (i, j) is 0
\* when j > i and greater than 0 when j <= i
C21_CausalSquareMatrix ==
    LET n == Min(Len(aInput), attentionMaxTokens) IN
    /\ Len(aMatrix) = n
    /\ aTokens = SubSeq(aInput, 1, n)
    /\ \A i \in 1..Len(aMatrix) :
          /\ Len(aMatrix[i]) = n
          /\ \A j \in 1..Len(aMatrix[i]) :
                /\ j > i => IsZero(aMatrix[i][j])
                /\ j <= i => IsPositive(aMatrix[i][j])

\* more tokens than the cap were given
C21_Witness ==
    /\ Len(aInput) = attentionMaxTokens + 2
    /\ Len(aMatrix) = attentionMaxTokens
    /\ aTokens = SubSeq(aInput, 1, attentionMaxTokens)

\* C22: every row sums to 1 and the sum it is divided by is not 0
C22_RowsSumToOne ==
    \A i \in 1..Len(aMatrix) :
        /\ \A j \in 1..Len(aMatrix[i]) : aMatrix[i][j].den # 0
        /\ SumSeq([j \in 1..Len(aMatrix[i]) |-> aMatrix[i][j].num])
              = aMatrix[i][1].den
        /\ \A j \in 1..Len(aMatrix[i]) : aMatrix[i][j].den = aMatrix[i][1].den

\* a full matrix whose first column drew the largest noise: the weight at
\* distance 1 is cut to 1, the one at distance 2 is not
C22_Witness ==
    /\ Len(aMatrix) = attentionMaxTokens
    /\ aMatrix[1][1] = [num |-> 1000, den |-> 1000]
    /\ aMatrix[2][1].num = 1000
    /\ aMatrix[3][1].num = 549 + 299

(***************************************************************************)
(* EmbeddingsVisualizer.generateEmbeddings and hashToken (part_003), on    *)
(* their own.  A 32-bit integer is kept as its two 16-bit halves; a value  *)
(* of an embedding is kept as the term v of 0.1 + 0.9 * v / 233280.        *)
(***************************************************************************)
\* length of the token lists generateEmbeddings is given
MaxEmbInput == 2

embeddingDimensions == 8

\* String.prototype.charCodeAt, on the characters of EmbTokens
charCodeAt(c) ==
    CASE c = "<" -> 60 [] c = ">" -> 62 [] c = "B" -> 66 [] c = "H" -> 72
      [] c = "O" -> 79 [] c = "S" -> 83 [] c = "a" -> 97 [] c = "b" -> 98
      [] c = "e" -> 101 [] c = "i" -> 105 [] c = "l" -> 108 [] c = "v" -> 118
      [] c = "G" -> 71 [] c = "Z" -> 90 [] c = "_" -> 95 [] c = "d" -> 100
      [] c = "y" -> 121

\* the token texts that are embedded; the hash of "believe" wraps around
\* to a negative number, the hash of "GydZG_" to the least 32-bit integer
EmbTokens ==
    { BOS, <<"a">>, <<"H","i">>, <<"b","e","l","i","e","v","e">>,
      <<"G","y","d","Z","G","_">> }

Half == 65536

\* hash = ((hash << 5) - hash) + char; hash = hash & hash: 31 * hash + char,
\* cut to 32 bits
HashStep(h, code) ==
    LET low == 31 * h.lo + code IN
    [hi |-> (31 * h.hi + (low \div Half)) % Half, lo |-> low % Half]

RECURSIVE RollingHash(_, _)
RollingHash(token, h) ==
    IF token = <<>> THEN h
    ELSE RollingHash(Tail(token), HashStep(h, charCodeAt(Head(token))))

\* a hash that is returned with its sign
SignedInt32(h) == h

\* Math.abs of the signed 32-bit integer with these bits
AbsInt32(h) ==
    IF h.hi < 32768 THEN h
    ELSE [hi |-> (Half - 1) - h.hi + (IF h.lo = 0 THEN 1 ELSE 0),
          lo |-> (Half - h.lo) % Half]

hashToken(token) == AbsInt32(RollingHash(token, [hi |-> 0, lo |-> 0]))

\* (seed * (i + 1) * 9301 + 49297) % 233280, for i counted from 0
EmbeddingTerm(seed, i) ==
    LET m == 233280
        s == (((seed.hi * 256) % m) * 256 + seed.lo) % m
        x == (s * (i + 1)) % m
        y == (((x * 93) % m) * 100 + x) % m IN
    (y + 49297) % m

\* a generator whose seed depends on the place of the token in the list
SeedByPlace(token, index) ==
    [hi |-> hashToken(token).hi, lo |-> (hashToken(token).lo + index) % Half]

\* const seed = this.hashToken(token)
Seed(token, index) == hashToken(token)

\* index is counted from 0, as in the code
Embedding(token, index) ==
    LET seed == Seed(token, index) IN
    [token |-> token, index |-> index, seed |-> seed,
     values |-> [i \in 1..embeddingDimensions |-> EmbeddingTerm(seed, i - 1)]]

generateEmbeddings(toks) == [k \in 1..Len(toks) |-> Embedding(toks[k], k - 1)]

EmbInputs == UNION { [1..n -> EmbTokens] : n \in 0..MaxEmbInput }

\* EmbeddingsVisualizer.generateEmbeddings(tokens)
generateEmbeddingsCall(toks) ==
    LET result == generateEmbeddings(toks) IN
    /\ eInput' = toks
    /\ eResult' = result
    /\ eSeen' = eSeen \cup
          { <<result[k].token, result[k].seed, result[k].values>> :
                k \in 1..Len(result) }
    /\ embeddings' = Len(result)
    /\ UNCHANGED <<isProcessing, submitDisabled, currentView, layerStatus,
                   layerText, responseOutput, cursorActive, tokens,
                   attentionWeights, currentTokens, isAnimating, networkStatus,
                   nruns, runs, lastCall>>
    /\ UNCHANGED <<streamVars, configVars, tText, animVars, aInput, aTokens, aMatrix,
                   dSelected, dProbs>>

EmbNext == \E toks \in EmbInputs : generateEmbeddingsCall(toks)

EmbSpec == Init /\ [][EmbNext]_vars

\* C23: two tokens with the same text have the same hash and the same
\* vector, whatever their places in the list and whatever was embedded before
C23_EmbeddingOfTextOnly ==
    /\ \A p \in eSeen : \A q \in eSeen : p[1] = q[1] => p = q
    /\ \A k \in 1..Len(eResult) :
          /\ eResult[k].token = eInput[k]
          /\ <<eResult[k].token, eResult[k].seed, eResult[k].values>> \in eSeen

\* the same text was embedded at two places of one list, after an earlier
\* call had embedded it too; its hash had wrapped around
C23_Witness ==
    /\ Len(eResult) = 2
    /\ eResult[1].token = <<"b","e","l","i","e","v","e">>
    /\ eResult[2].token = eResult[1].token
    /\ eResult[1].seed = [hi |-> 224439084 \div Half, lo |-> 224439084 % Half]
    /\ eResult[2].values =
          <<23341, 230665, 204709, 178753, 152797, 126841, 100885, 74929>>
    /\ Cardinality(eSeen) = Cardinality(EmbTokens)

\* C33: every value of every embedding lies in [0.1, 1.0], that is, its
\* term lies in 0..233280, and the seed is a non-negative integer of at most
\* 2^31, also for a token whose hash wraps around to -2^31
C33_EmbeddingValueInRange ==
    \A k \in 1..Len(eResult) :
        /\ eResult[k].seed.hi \in 0..32768
        /\ eResult[k].seed.lo \in 0..(Half - 1)
        /\ eResult[k].seed.hi = 32768 => eResult[k].seed.lo = 0
        /\ DOMAIN eResult[k].values = 1..embeddingDimensions
        /\ \A i \in 1..embeddingDimensions :
              eResult[k].values[i] \in 0..233280

\* a token whose hash is -2^31 was embedded with the seed 2^31, next to one
\* whose hash is small
C33_Witness ==
    /\ Len(eResult) = 2
    /\ eResult[1].token = <<"G","y","d","Z","G","_">>
    /\ eResult[1].seed = [hi |-> 32768, lo |-> 0]
    /\ eResult[1].values =
          <<197265, 111953, 26641, 174609, 89297, 3985, 151953, 66641>>
    /\ eResult[2].token = <<"a">>
    /\ eResult[2].seed = [hi |-> 0, lo |-> 97]

(***************************************************************************)
(* OutputVisualizer.generateDistribution (output.js), on its own.  A       *)
(* probability is kept in units of 1/16000; Math.random() * 0.3 is one of  *)
(* RandomLevels thousandths.                                               *)
(***************************************************************************)
topKOutputTokens == 5

vocabulary ==
    << "The", "a", "is", "in", "to", "and", "of", "that", "for", "it",
       "with", "as", "on", "be", "at", "by", "this", "have", "from", "or",
       "one", "all", "would", "there", "their", "what", "so", "up", "out", "if",
       "about", "who", "get", "which", "when", "make", "can", "like", "time", "just",
       "life", "meaning", "purpose", "human", "question", "answer", "exist", "world", "think", "believe" >>

Words(seq) == { seq[k] : k \in 1..Len(seq) }

\* the values of token.trim() the orchestrator passes: words of the
\* vocabulary, words outside it, and the empty string of a blank token
SelectedSet == Words(vocabulary) \cup {"Hi", "42", "."} \cup {""}

\* Math.random() * 0.3, in thousandths: from 0 up to, not including, 300
RandomLevels == {0, 150, 299}

ProbUnit == 16000

\* a list that keeps the selected token among the other tokens
OtherTokensUnfiltered(vocab, selectedToken) == vocab

\* vocabulary.filter(t => t !== selectedToken)
OtherTokens(vocab, selectedToken) ==
    SelectSeq(vocab, LAMBDA t : t # selectedToken)

\* Array.prototype.sort with (a, b) => b.probability - a.probability: stable,
\* descending
RECURSIVE InsertDesc(_, _)
InsertDesc(sorted, item) ==
    IF sorted = <<>> THEN <<item>>
    ELSE IF Head(sorted).probability >= item.probability
         THEN <<Head(sorted)>> \o InsertDesc(Tail(sorted), item)
         ELSE <<item>> \o sorted

RECURSIVE SortDesc(_)
SortDesc(probs) ==
    IF probs = <<>> THEN <<>>
    ELSE InsertDesc(SortDesc(SubSeq(probs, 1, Len(probs) - 1)),
                    probs[Len(probs)])

\* generateDistribution when CONFIG.visualization.topKOutputTokens is topK
Distribution(selectedToken, random, topK) ==
    LET vocab == IF selectedToken # "" /\ selectedToken \notin Words(vocabulary)
                 THEN [vocabulary EXCEPT ![1] = selectedToken]
                 ELSE vocabulary
        selectedProb == (ProbUnit \div 1000) * (300 + random)
        first == IF selectedToken # ""
                 THEN << [token |-> selectedToken, probability |-> selectedProb,
                          selected |-> TRUE] >>
                 ELSE <<>>
        remaining == IF selectedToken # "" THEN ProbUnit - selectedProb
                     ELSE ProbUnit
        otherTokens == OtherTokens(vocab, selectedToken)
        others == [i \in 1..Min(topK - 1, Len(otherTokens)) |->
                      [token |-> otherTokens[i],
                       probability |-> remaining \div (2 ^ i),
                       selected |-> FALSE]]
    IN  SortDesc(first \o others)

generateDistribution(selectedToken, random) ==
    Distribution(selectedToken, random, topKOutputTokens)

DistFrame ==
    /\ UNCHANGED <<isProcessing, submitDisabled, currentView, layerStatus,
                   layerText, responseOutput, cursorActive, tokens, embeddings,
                   attentionWeights, isAnimating, networkStatus, nruns, runs,
                   lastCall>>
    /\ UNCHANGED <<streamVars, configVars, tText, animVars, aInput, aTokens, aMatrix,
                   eInput, eResult, eSeen>>

\* OutputVisualizer.generateDistribution(selectedToken)
generateDistributionCall(selectedToken, random) ==
    /\ dSelected' = selectedToken
    /\ dProbs' = generateDistribution(selectedToken, random)
    /\ currentTokens' = (dProbs' # <<>>)
    /\ DistFrame

DistNext ==
    \E selectedToken \in SelectedSet : \E random \in RandomLevels :
        generateDistributionCall(selectedToken, random)

DistSpec == Init /\ [][DistNext]_vars

Flagged(probs) == { k \in 1..Len(probs) : probs[k].selected }

Holding(probs, token) == { k \in 1..Len(probs) : probs[k].token = token }

\* C24: a generated distribution has exactly one entry flagged selected,
\* whatever selectedToken was, the empty string included
C24_ExactlyOneSelected ==
    dProbs # <<>> => Cardinality(Flagged(dProbs)) = 1

\* C25: for a non-empty selectedToken the distribution holds that token
\* exactly once, and that entry is the one flagged selected
C25_SelectedTokenOnce ==
    (dProbs # <<>> /\ dSelected # "") =>
        /\ Cardinality(Holding(dProbs, dSelected)) = 1
        /\ Holding(dProbs, dSelected) = Flagged(dProbs)

\* C31: for a non-empty selectedToken the selected entry is the first of
\* the sorted list and no entry has a higher probability
C31_SelectedIsHighest ==
    (dProbs # <<>> /\ dSelected # "") =>
        /\ dProbs[1].selected
        /\ \A k \in 1..Len(dProbs) :
              dProbs[k].selected =>
                  \A j \in 1..Len(dProbs) :
                      dProbs[j].probability <= dProbs[k].probability

\* a token outside the vocabulary was selected; it took the place of the
\* first word, and the distribution has topK entries
C25_Witness ==
    /\ dSelected = "Hi"
    /\ Len(dProbs) = topKOutputTokens
    /\ Holding(dProbs, "The") = {}
    /\ Holding(dProbs, "Hi") = {2}

\* the invocation has reached the end of the pipeline
Completed(r) == runs[r].pc = "done" /\ ~runs[r].err

Providers ==
    {"tokenize", "generateEmbeddings", "generateAttentionWeights",
     "generateDistribution"}

\* C32: an invocation that reaches completion has called each synthetic
\* data provider exactly once, whatever number of tokens the stream
\* delivered
C32_ProvidersOncePerRun ==
    \A r \in Runs :
        Completed(r) => \A p \in Providers : runs[r].data[p] = 1

\* C36: an accepted invocation starts the network diagram exactly once: at
\* submit or at the end of the layer transition that follows tokenization,
\* whatever the view was at submit and whatever switchView did in between
C36_NetworkStartedOnce ==
    [][\A r \in Runs :
          runEmbeddings(r) =>
              (IF runs[r].netAtSubmit THEN 1 ELSE 0) + Len(lastCall'.net) = 1]_vars

\* the tokens the read loop has passed to onToken of an invocation, in order
Delivered(r) == [i \in 1..runs[r].tokenCount |-> TokenAt(i)]

\* C34: when the stream of an invocation that was not reset completes, the
\* response surface holds the tokens passed to its onToken, in order, and
\* the output stage is completed with the number of those calls as label
C34_ResponseIsTokensInOrder ==
    [][\A r \in Runs :
          (onComplete(r) /\ ~runs[r].intr) =>
              /\ responseOutput' = Delivered(r)
              /\ layerStatus'["output"] = "completed"
              /\ layerText'["output"] = Label("tokens", runs[r].tokenCount)]_vars

(***************************************************************************)
(* The network diagram in the pipeline of process().                       *)
(***************************************************************************)
\* the stage was marked completed among the first n marks of the log
CompletedWithin(log, stage, n) ==
    \E i \in 1..Min(n, Len(log)) : log[i] = <<stage, "completed">>

\* the invocation whose layer transition after tokenization this step is
AfterTokenization(r) == runs[r].pc = "tokDelay" /\ runs'[r].pc # "tokDelay"

\* an accepted process() call is this step
Accepted == lastCall'.op = "process" /\ nruns' = nruns + 1

\* C29: in network view the diagram is started at submit, before the
\* tokenization stage completes; in layers view it is started when the
\* tokenization stage has completed, with the token count of that run; no
\* other step starts it, and a stage that waits for its turn goes on while
\* the diagram has not completed
C29_NetworkStartFollowsView ==
    [][ /\ Accepted =>
              lastCall'.net =
                  IF currentView = "network"
                  THEN <<NetworkAnimate("network", 0, 5)>> ELSE <<>>
        /\ \A r \in Runs :
              AfterTokenization(r) =>
                  /\ CompletedWithin(runs[r].log, "tokenization",
                                     Len(runs[r].log))
                  /\ lastCall'.net =
                        IF currentView = "layers"
                        THEN <<NetworkAnimate("layers", Len(runs[r].log),
                                              runs[r].ntok)>>
                        ELSE <<>>
        /\ (~Accepted /\ \A r \in Runs : ~AfterTokenization(r)) =>
              lastCall'.net = <<>>
        /\ \A r \in Runs :
              (networkStatus = "Processing"
                  /\ runs[r].pc \in {"embDelay", "attnDelay", "ffnDelay"})
                  => ENABLED TimerTask(r) ]_vars

(***************************************************************************)
(* The animators as an interface: init(), clear() and animate() of the six *)
(* modules, called in any order, and the timer and frame callbacks their   *)
(* animate() leaves pending.  A surface is the set of the elements shown   *)
(* in the animator's container (or drawn on its canvas); an element is     *)
(* <<animate call that made it, kind, index, look>>.  A chain is the       *)
(* pending work of one animate() call: the timers of one call that do the  *)
(* same thing to the neurons, lines or nodes of one layer are one timer.   *)
(***************************************************************************)
\* animate() calls made in all
MaxAnimCalls == 2

\* length of the token lists the animators are given
MaxAnimInput == 2

\* the first layers of NetworkDiagram.layers, the ones the diagram animates
MaxNetLayers == 2

totalLayers == MaxNetLayers

El(id, kind, index, look) == <<id, kind, index, look>>

Chain(a, id, k, n) ==
    [anim |-> a, id |-> id, k |-> k, n |-> n, res |-> "none", sel |-> FALSE,
     sub |-> {}]

\* a timer of a layer: what it does, the layer, the animate() call whose
\* elements it holds
Sub(kind, layer, dom) == <<kind, layer, dom>>

\* the chain has a callback pending
Pending(c) ==
    \/ c.sub # {}
    \/ c.res = "pending"
    \/ c.anim \in {"tokenizer", "embeddings", "output"} /\ c.k < c.n
    \/ c.anim \in {"attention", "ffn", "network"} /\ c.res = "none"

\* the chains after chain c has become d
Replace(c, d) ==
    (anim.chains \ {c}) \cup (IF Pending(d) THEN {d} ELSE {})

\* the look of one element changes, if the element is on the surface
Relook(surface, id, kind, index, from, to) ==
    IF El(id, kind, index, from) \in surface
    THEN (surface \ {El(id, kind, index, from)}) \cup {El(id, kind, index, to)}
    ELSE surface

\* a clear() that does not check the container
ClearThrowsUnguarded == ~anim.container

\* if (this.container) { ... }: clear() has no statement that can throw
ClearThrows == FALSE

\* a clear() that leaves the frame request alone
FrameKept == anim.animationFrame

\* if (this.animationFrame) cancelAnimationFrame(this.animationFrame)
FrameCancelled == FALSE

\* the animators' record after clear() of animator a
Cleared(a) ==
    LET base == [anim EXCEPT !.surface[a] = {}] IN
    IF a = "network"
    THEN [base EXCEPT !.particles = {}, !.progress = 0,
                      !.animationFrame = FrameCancelled]
    ELSE base

\* the cached data of the animators
Cached(tok, emb, att, cur, isA, status) ==
    /\ tokens' = tok
    /\ embeddings' = emb
    /\ attentionWeights' = att
    /\ currentTokens' = cur
    /\ isAnimating' = isA
    /\ networkStatus' = status

\* the cached data after clear() of animator a
ClearedCache(a) ==
    Cached(IF a = "tokenizer" THEN <<>> ELSE tokens,
           IF a = "embeddings" THEN 0 ELSE embeddings,
           IF a = "attention" THEN 0 ELSE attentionWeights,
           IF a = "output" THEN FALSE ELSE currentTokens,
           IF a = "network" THEN FALSE ELSE isAnimating,
           IF a = "network" THEN "Ready" ELSE networkStatus)

SameCache ==
    UNCHANGED <<tokens, embeddings, attentionWeights, currentTokens,
                isAnimating, networkStatus>>

AnimFrame ==
    /\ UNCHANGED <<isProcessing, submitDisabled, currentView, layerStatus,
                   layerText, responseOutput, cursorActive, nruns, runs,
                   lastCall>>
    /\ UNCHANGED <<streamVars, configVars, tText, fnVars, sched>>

\* App.init(): init() of every animator
initAnimators ==
    /\ ~anim.container
    /\ anim' = [anim EXCEPT !.container = TRUE]
    /\ SameCache
    /\ AnimFrame

\* clear() of animator a
clear(a) ==
    /\ anim' = [Cleared(a) EXCEPT !.live[a] = FALSE, !.thrown = ClearThrows]
    /\ ClearedCache(a)
    /\ AnimFrame

\* what every animate() does to the record: the call is counted, its
\* promise is resolved at once or its chain is left pending
Started(base, a, shown, chain, now) ==
    [base EXCEPT !.calls = @ + 1,
                 !.live[a] = TRUE,
                 !.surface[a] = shown,
                 !.chains = IF Pending(chain) THEN @ \cup {chain} ELSE @,
                 !.resolved = IF now THEN @ \cup {anim.calls + 1} ELSE @]

CanAnimate == anim.container /\ anim.calls < MaxAnimCalls

(* TokenizerVisualizer *)
TokenizerStart(toks) ==
    LET id == anim.calls + 1
        n  == Len(toks) IN
    /\ anim' = Started(anim, "tokenizer",
                       { El(id, "token", i, "hidden") : i \in 0..(n - 1) },
                       Chain("tokenizer", id, 0, n), n = 0)
    /\ Cached(toks, embeddings, attentionWeights, currentTokens, isAnimating,
              networkStatus)
    /\ AnimFrame

\* TokenizerVisualizer.tokenize(text), then animate(), as runTokenization
runTokenizerAnimation(text) == CanAnimate /\ TokenizerStart(tokenize(text))

\* TokenizerVisualizer.animate() on the token list as it is
animateTokenizer == CanAnimate /\ TokenizerStart(tokens)

\* the timer of token c.k: the last token, by the list as it is now,
\* schedules the resolve
TokenizerTimer(c) ==
    /\ c.anim = "tokenizer"
    /\ c.k < c.n
    /\ LET last == c.k = Len(tokens) - 1
           d    == [c EXCEPT !.k = @ + 1,
                             !.res = IF last /\ @ = "none" THEN "pending" ELSE @]
       IN anim' = [anim EXCEPT
                     !.surface["tokenizer"] =
                         Relook(@, c.id, "token", c.k, "hidden", "visible"),
                     !.chains = Replace(c, d)]
    /\ SameCache
    /\ AnimFrame

\* setTimeout(resolve, ...) of a tokenizer, embeddings, attention or FFN
\* animation fires
ResolveTimer(c) ==
    /\ c.anim \in {"tokenizer", "embeddings", "attention", "ffn"}
    /\ c.res = "pending"
    /\ anim' = [anim EXCEPT !.resolved = @ \cup {c.id},
                            !.chains = Replace(c, [c EXCEPT !.res = "done"])]
    /\ SameCache
    /\ AnimFrame

(* EmbeddingsVisualizer *)
animateEmbeddings(len) ==
    /\ CanAnimate
    /\ LET id == anim.calls + 1
           n  == Min(len, attentionMaxTokens) IN
       /\ anim' = Started(Cleared("embeddings"), "embeddings",
                          { El(id, "embedding", i, "hidden") : i \in 0..(n - 1) },
                          Chain("embeddings", id, 0, n), n = 0)
       /\ Cached(tokens, len, attentionWeights, currentTokens, isAnimating,
                 networkStatus)
       /\ AnimFrame

\* the timer of embedding c.k: the last one of the list shown schedules the
\* resolve
EmbeddingsTimer(c) ==
    /\ c.anim = "embeddings"
    /\ c.k < c.n
    /\ LET d == [c EXCEPT !.k = @ + 1,
                          !.res = IF c.k = c.n - 1 THEN "pending" ELSE @]
       IN anim' = [anim EXCEPT
                     !.surface["embeddings"] =
                         Relook(@, c.id, "embedding", c.k, "hidden", "visible"),
                     !.chains = Replace(c, d)]
    /\ SameCache
    /\ AnimFrame

(* AttentionVisualizer *)
\* cell 0 is drawn by animate() itself
animateAttention(len) ==
    /\ CanAnimate
    /\ LET id == anim.calls + 1
           n  == MatrixSize(len) IN
       /\ anim' = Started(Cleared("attention"), "attention",
                          IF n = 0 THEN {}
                          ELSE { El(id, "background", 0, "drawn"),
                                 El(id, "cell", 0, "drawn") },
                          IF n = 0 THEN [Chain("attention", id, 0, 0)
                                           EXCEPT !.res = "done"]
                          ELSE Chain("attention", id, 1, n),
                          n = 0)
       /\ Cached(tokens, embeddings, n, currentTokens, isAnimating,
                 networkStatus)
       /\ AnimFrame

\* drawCell fires: past the last cell it draws the labels of this.tokens and
\* the legend and schedules the resolve; otherwise it reads
\* this.attentionWeights[i][j] of the matrix as it is now, which throws when
\* row i is gone
AttentionDrawCell(c) ==
    /\ c.anim = "attention"
    /\ c.res = "none"
    /\ LET i == c.k \div c.n IN
       IF c.k >= c.n * c.n
       THEN anim' = [anim EXCEPT
                       !.surface["attention"] =
                           @ \cup {El(c.id, "legend", 0, "drawn")}
                             \cup { El(c.id, "label", t, "drawn") :
                                      t \in 0..(attentionWeights - 1) },
                       !.chains = Replace(c, [c EXCEPT !.res = "pending"])]
       ELSE IF i >= attentionWeights
       THEN anim' = [anim EXCEPT
                       !.chains = Replace(c, [c EXCEPT !.res = "thrown"])]
       ELSE anim' = [anim EXCEPT
                       !.surface["attention"] =
                           @ \cup {El(c.id, "cell", c.k, "drawn")},
                       !.chains = Replace(c, [c EXCEPT !.k = @ + 1])]
    /\ SameCache
    /\ AnimFrame

(* FFNVisualizer *)
\* the layers and the connection groups createStructure writes
Structure(id, numLayers) ==
    { El(id, "layer", l, "idle") : l \in 0..(numLayers - 1) }
        \cup { El(id, "conn", l, "idle") : l \in 0..(numLayers - 2) }

\* document.querySelectorAll for the neurons and the connection lines of
\* layer l: the timers that will light them
Queried(surface, l) ==
    { Sub("neurons", l, e[1]) : e \in { x \in surface : x[2] = "layer" /\ x[3] = l } }
        \cup { Sub("conn", l, e[1]) :
                 e \in { x \in surface : x[2] = "conn" /\ x[3] = l } }

\* animate() when CONFIG.visualization.ffnLayers is numLayers; animateLayer(0)
\* runs at once
animateFFN(numLayers) ==
    /\ CanAnimate
    /\ LET id    == anim.calls + 1
           shown == Structure(id, numLayers)
           chain == IF 0 >= numLayers
                    THEN [Chain("ffn", id, 0, numLayers) EXCEPT !.res = "pending"]
                    ELSE [Chain("ffn", id, 0, numLayers) EXCEPT
                             !.sub = Queried(shown, 0)] IN
       /\ anim' = Started(Cleared("ffn"), "ffn", shown, chain, FALSE)
       /\ SameCache
       /\ AnimFrame

\* setTimeout(() => animateLayer(layerIndex + 1), layerDelay) fires; the
\* timers of the layer before are due earlier and have fired
FFNAnimateLayer(c) ==
    /\ c.anim = "ffn"
    /\ c.res = "none"
    /\ c.sub = {}
    /\ LET l == c.k + 1
           d == IF l >= c.n THEN [c EXCEPT !.res = "pending"]
                ELSE [c EXCEPT !.k = l,
                               !.sub = Queried(anim.surface["ffn"], l)]
       IN anim' = [anim EXCEPT !.chains = Replace(c, d)]
    /\ SameCache
    /\ AnimFrame

\* the look of the layers with this index that are on the surface
Idle(surface, l) ==
    { IF e[2] = "layer" /\ e[3] = l THEN El(e[1], "layer", l, "idle") ELSE e :
        e \in surface }

\* the neurons the timer holds become active, the neurons of the layer
\* before that are in the document now become idle
FFNNeurons(c, s) ==
    /\ c.anim = "ffn"
    /\ s \in c.sub
    /\ s[1] = "neurons"
    /\ anim' = [anim EXCEPT
                  !.surface["ffn"] =
                      Idle(Relook(@, s[3], "layer", s[2], "idle", "active"),
                           s[2] - 1),
                  !.chains = Replace(c, [c EXCEPT !.sub = @ \ {s}])]
    /\ SameCache
    /\ AnimFrame

\* the lines the timer holds are lit and their fading is scheduled
FFNConnections(c, s) ==
    /\ c.anim = "ffn"
    /\ s \in c.sub
    /\ s[1] = "conn"
    /\ anim' = [anim EXCEPT
                  !.surface["ffn"] =
                      Relook(@, s[3], "conn", s[2], "idle", "bright"),
                  !.chains = Replace(c, [c EXCEPT !.sub =
                                 (@ \ {s}) \cup {Sub("fade", s[2], s[3])}])]
    /\ SameCache
    /\ AnimFrame

FFNConnectionsFade(c, s) ==
    /\ c.anim = "ffn"
    /\ s \in c.sub
    /\ s[1] = "fade"
    /\ anim' = [anim EXCEPT
                  !.surface["ffn"] =
                      Relook(@, s[3], "conn", s[2], "bright", "dim"),
                  !.chains = Replace(c, [c EXCEPT !.sub = @ \ {s}])]
    /\ SameCache
    /\ AnimFrame

(* OutputVisualizer *)
\* animate(selectedToken) when CONFIG.visualization.topKOutputTokens is topK
animateOutput(selectedToken, topK) ==
    /\ CanAnimate
    /\ LET id == anim.calls + 1
           n  == Len(Distribution(selectedToken, 0, topK)) IN
       /\ anim' = Started(Cleared("output"), "output",
                          { El(id, "row", i, "hidden") : i \in 0..(n - 1) },
                          [Chain("output", id, 0, n) EXCEPT
                              !.sel = (selectedToken # "")],
                          n = 0)
       /\ Cached(tokens, embeddings, attentionWeights, n > 0, isAnimating,
                 networkStatus)
       /\ AnimFrame

\* the timer of row c.k: the last row schedules the timer of the selected
\* token indicator
OutputRowTimer(c) ==
    /\ c.anim = "output"
    /\ c.k < c.n
    /\ LET d == [c EXCEPT !.k = @ + 1,
                          !.res = IF c.k = c.n - 1 THEN "pending" ELSE @]
       IN anim' = [anim EXCEPT
                     !.surface["output"] =
                         Relook(@, c.id, "row", c.k, "hidden", "visible"),
                     !.chains = Replace(c, d)]
    /\ SameCache
    /\ AnimFrame

\* if (selectedToken) this.container.appendChild(selectedEl); resolve()
OutputSelectedTimer(c) ==
    /\ c.anim = "output"
    /\ c.res = "pending"
    /\ anim' = [anim EXCEPT
                  !.surface["output"] =
                      IF c.sel THEN @ \cup {El(c.id, "selected", 0, "visible")}
                      ELSE @,
                  !.resolved = @ \cup {c.id},
                  !.chains = Replace(c, [c EXCEPT !.res = "done"])]
    /\ SameCache
    /\ AnimFrame

(* NetworkDiagram *)
\* the nodes or the connections of a layer get a look; they are elements of
\* the diagram init() has built, whatever animate() call lights them
SetLook(surface, kind, index, look) ==
    { e \in surface : ~(e[2] = kind /\ e[3] = index) }
        \cup {El(0, kind, index, look)}

\* the timers animateLayer(l) schedules, but the one of the next layer
LayerTimers(l, id) ==
    {Sub("nodes", l, id)}
        \cup (IF l < totalLayers - 1 THEN {Sub("conns", l, id)} ELSE {})
        \cup (IF l > 0 THEN {Sub("fade", l, id)} ELSE {})

\* animate(numTokens): clear(), isAnimating = true, animateLayer(0), then
\* the first pass of animateParticles, which requests a frame
animateNetwork ==
    /\ CanAnimate
    /\ LET id == anim.calls + 1
           chain == [Chain("network", id, 0, totalLayers) EXCEPT
                        !.sub = LayerTimers(0, id)] IN
       /\ anim' = [Started(Cleared("network"), "network", {}, chain, FALSE)
                      EXCEPT !.progress = 1, !.animationFrame = TRUE]
       /\ Cached(tokens, embeddings, attentionWeights, currentTokens, TRUE,
                 "Processing")
       /\ AnimFrame

\* setTimeout(() => animateLayer(layerIndex + 1), layerDelay) fires
NetworkAnimateLayer(c) ==
    /\ c.anim = "network"
    /\ c.res = "none"
    /\ LET l == c.k + 1 IN
       IF ~isAnimating \/ l >= totalLayers
       THEN /\ anim' = [anim EXCEPT
                          !.progress = totalLayers,
                          !.resolved = @ \cup {c.id},
                          !.chains = Replace(c, [c EXCEPT !.res = "done"])]
            /\ Cached(tokens, embeddings, attentionWeights, currentTokens,
                      isAnimating, "Complete")
       ELSE /\ anim' = [anim EXCEPT
                          !.progress = l + 1,
                          !.chains = Replace(c, [c EXCEPT !.k = l,
                                         !.sub = @ \cup LayerTimers(l, c.id)])]
            /\ Cached(tokens, embeddings, attentionWeights, currentTokens,
                      isAnimating, "Processing")
    /\ AnimFrame

\* the nodes of the layer become active and createParticles schedules the
\* particles that leave them
NetworkNodes(c, s) ==
    /\ c.anim = "network"
    /\ s \in c.sub
    /\ s[1] = "nodes"
    /\ anim' = [anim EXCEPT
                  !.surface["network"] = SetLook(@, "node", s[2], "active"),
                  !.chains = Replace(c, [c EXCEPT !.sub =
                      (@ \ {s}) \cup (IF s[2] < totalLayers - 1
                                      THEN {Sub("particles", s[2], c.id)}
                                      ELSE {})])]
    /\ SameCache
    /\ AnimFrame

NetworkConnections(c, s) ==
    /\ c.anim = "network"
    /\ s \in c.sub
    /\ s[1] = "conns"
    /\ anim' = [anim EXCEPT
                  !.surface["network"] = SetLook(@, "conn", s[2], "active"),
                  !.chains = Replace(c, [c EXCEPT !.sub = @ \ {s}])]
    /\ SameCache
    /\ AnimFrame

\* a particle is pushed to this.particles and its circle is appended
NetworkParticles(c, s) ==
    /\ c.anim = "network"
    /\ s \in c.sub
    /\ s[1] = "particles"
    /\ anim' = [anim EXCEPT
                  !.particles = @ \cup {<<c.id, s[2]>>},
                  !.surface["network"] =
                      @ \cup {El(c.id, "particle", s[2], "shown")},
                  !.chains = Replace(c, [c EXCEPT !.sub = @ \ {s}])]
    /\ SameCache
    /\ AnimFrame

\* the nodes and the connections of the layer before fade
NetworkFade(c, s) ==
    /\ c.anim = "network"
    /\ s \in c.sub
    /\ s[1] = "fade"
    /\ anim' = [anim EXCEPT
                  !.surface["network"] =
                      LET nodes == SetLook(@, "node", s[2] - 1, "faded") IN
                      SetLook(nodes, "conn", s[2] - 1, "faded"),
                  !.chains = Replace(c, [c EXCEPT !.sub = @ \ {s}])]
    /\ SameCache
    /\ AnimFrame

\* the frame callback of animateParticles: it ends the loop when
\* isAnimating is false; otherwise the particles that have arrived leave the
\* list and the surface, and the next frame is requested
animateParticles ==
    /\ anim.animationFrame
    /\ IF ~isAnimating
       THEN anim' = [anim EXCEPT !.animationFrame = FALSE]
       ELSE \E arrived \in SUBSET anim.particles :
               anim' = [anim EXCEPT
                          !.particles = @ \ arrived,
                          !.surface["network"] =
                              @ \ { El(p[1], "particle", p[2], "shown") :
                                      p \in arrived }]
    /\ SameCache
    /\ AnimFrame

(* the interface *)
AnimTexts == { <<>>, <<"a">> }

SelectedTokens == { "", "Hi" }

AnimateCall ==
    \/ \E text \in AnimTexts : runTokenizerAnimation(text)
    \/ animateTokenizer
    \/ \E len \in 0..MaxAnimInput : animateEmbeddings(len)
    \/ \E len \in 0..MaxAnimInput : animateAttention(len)
    \/ \E numLayers \in {0, ffnLayers} : animateFFN(numLayers)
    \/ \E selectedToken \in SelectedTokens :
          \E topK \in {1, topKOutputTokens} : animateOutput(selectedToken, topK)
    \/ animateNetwork

TimerCallback(c) ==
    \/ TokenizerTimer(c)
    \/ ResolveTimer(c)
    \/ EmbeddingsTimer(c)
    \/ AttentionDrawCell(c)
    \/ FFNAnimateLayer(c)
    \/ \E s \in c.sub : FFNNeurons(c, s)
    \/ \E s \in c.sub : FFNConnections(c, s)
    \/ \E s \in c.sub : FFNConnectionsFade(c, s)
    \/ OutputRowTimer(c)
    \/ OutputSelectedTimer(c)
    \/ NetworkAnimateLayer(c)
    \/ \E s \in c.sub : NetworkNodes(c, s)
    \/ \E s \in c.sub : NetworkConnections(c, s)
    \/ \E s \in c.sub : NetworkParticles(c, s)
    \/ \E s \in c.sub : NetworkFade(c, s)

AnimNext ==
    \/ initAnimators
    \/ \E a \in Animators : clear(a)
    \/ AnimateCall
    \/ \E c \in anim.chains : TimerCallback(c)
    \/ animateParticles

AnimSpec == Init /\ [][AnimNext]_vars

(***************************************************************************)
(* Properties of the animators.                                            *)
(***************************************************************************)
\* the cached data of animator a is what clear() leaves
CacheCleared(a) ==
    /\ a = "tokenizer" => tokens = <<>>
    /\ a = "embeddings" => embeddings = 0
    /\ a = "attention" => attentionWeights = 0
    /\ a = "output" => currentTokens = FALSE
    /\ a = "network" =>
          ~isAnimating /\ networkStatus = "Ready" /\ anim.progress = 0

\* clear() of animator a has been called and animate() has not been since
\* (or was never called), while a callback of the animator is pending
ClearedWhilePending(a) ==
    ~anim.live[a] /\ \E c \in anim.chains : c.anim = a

\* C26: after clear() and until the next animate() of the same animator, no
\* pending callback changes its surface or its cached data: the surface
\* stays empty, the cached data stay cleared, the network status stays
\* 'Ready'
C26_ClearSilencesCallbacks ==
    \A a \in Animators :
        ~anim.live[a] => (anim.surface[a] = {} /\ CacheCleared(a))

\* the state is one that clear() of animator a leaves as it is
ClearFixed(a) ==
    /\ anim = [Cleared(a) EXCEPT !.live[a] = FALSE, !.thrown = ClearThrows]
    /\ CacheCleared(a)

\* C27: clear() never fails, and a second clear() of the same animator right
\* after the first changes nothing
C27_ClearIdempotent ==
    [][ \A a \in Animators : clear(a) => (~anim'.thrown /\ ClearFixed(a)') ]_vars

\* clear() has run while callbacks of the animator were pending; another
\* clear() now would change nothing
C27_Witness ==
    \E a \in Animators : ClearedWhilePending(a) /\ ClearFixed(a)

\* an animate() call on an input with no element
EmptyAnimate ==
    \/ tokens = <<>> /\ animateTokenizer
    \/ animateEmbeddings(0)
    \/ animateAttention(0)
    \/ animateFFN(0)
    \/ animateOutput("", 1)

\* C28: animate() on an input with no element (no tokens, no embeddings, a
\* 0x0 matrix, zero FFN layers, an empty distribution) resolves its promise
\* at once and leaves no timer pending
C28_EmptyInputResolvesAtOnce ==
    [][ EmptyAnimate =>
           /\ (anim.calls + 1) \in anim'.resolved
           /\ \A c \in anim'.chains : c.id # anim.calls + 1 ]_vars

\* C30: when NetworkDiagram.clear() returns isAnimating is false, the
\* particle list is empty and no frame is requested; until the next
\* animate() no frame is requested and the frame callback does not run
C30_ClearStopsParticleLoop ==
    /\ [][ clear("network") =>
              (~isAnimating' /\ anim'.particles = {} /\ ~anim'.animationFrame)
       ]_vars
    /\ [][ ~anim.live["network"] => ~(animateParticles /\ anim' # anim) ]_vars
    /\ [](~anim.live["network"] => (~anim.animationFrame /\ ~isAnimating))

\* the diagram was cleared while a timer of its animation was pending; it
\* had created a particle, which clear() has removed from the list
C30_Witness ==
    /\ ClearedWhilePending("network")
    /\ \E c \in anim.chains :
          c.anim = "network" /\ c.k = 1
              /\ \A s \in c.sub : s[1] # "particles" /\ s[1] # "nodes"
    /\ anim.particles = {}
    /\ ~anim.animationFrame

\* a chain of NetworkDiagram.animate that a later call of animate has
\* replaced while its next-layer timer is pending
Superseded(c) ==
    /\ c.anim = "network"
    /\ c.res = "none"
    /\ \E d \in anim.chains : d.anim = "network" /\ d.id > c.id

\* C37: when the next-layer timer of a chain of NetworkDiagram fires after
\* animate() was called again, the old chain activates no further layer and
\* changes neither the status nor the progress
C37_OneNetworkChain ==
    [][\A c \in anim.chains :
          (Superseded(c) /\ NetworkAnimateLayer(c)) =>
              /\ networkStatus' = networkStatus
              /\ anim'.progress = anim.progress
              /\ \A d \in anim'.chains : d.id = c.id => d.sub \subseteq c.sub]_vars

\* every pending timer of the animators fires
FairAnimSpec == AnimSpec /\ WF_vars(\E c \in anim.chains : TimerCallback(c))

\* C38: the promise of every animate() call resolves in the end when timers
\* fire, also when clear() is called while the timers of the call are pending
C38_AnimateResolves ==
    \A id \in 1..MaxAnimCalls :
        (anim.calls >= id) ~> (id \in anim.resolved)

(***************************************************************************)
(* The delays of a stage animation and the speed setting: the tokenizer's  *)
(* reveal timers (js/tokenizer.js) and the attention grid's cell timers    *)
(* (part_002), with a clock that starts at the call of animate().  A timer *)
(* keeps the delay setTimeout was given; setSpeed may be called between    *)
(* any two timers.                                                         *)
(***************************************************************************)
\* tokens of the list the tokenizer animates
MaxTimedTokens == 3

\* tokens of the list the attention grid is drawn for
MaxTimedGrid == 2

\* index * value, as JavaScript computes it for an index >= 0
Times(i, v) ==
    IF v.kind = "number" THEN Num(i * v.num, v.den)
    ELSE IF v.kind = "Infinity" /\ i # 0 THEN Infinity
    ELSE NaN

\* value / k, for a count k > 0
DividedBy(v, k) ==
    IF v.kind = "number" THEN Num(v.num, v.den * k) ELSE v

\* the delay setTimeout(fn, value) waits, in ms: the value as an integer,
\* and 0 for NaN, Infinity or a negative value
TimerDelay(v) ==
    IF v.kind = "number" /\ v.num > 0 THEN v.num \div v.den ELSE 0

\* a timer set at time now: at is the number of setSpeed calls made when its
\* delay was computed
Timer(seq, now, v, fn, index, at) ==
    [seq |-> seq, due |-> now + TimerDelay(v), delay |-> TimerDelay(v),
     fn |-> fn, index |-> index, at |-> at]

\* the pending timer that fires next: the least due time, and among equal
\* ones the one set first
Earliest(pending) ==
    CHOOSE t \in pending :
        \A u \in pending : t.due < u.due \/ (t.due = u.due /\ t.seq <= u.seq)

TimedFrame == UNCHANGED <<appVars, streamVars, configVars, tText, fnVars, anim>>

\* TokenizerVisualizer.animate() with n tokens: one reveal timer per token,
\* set at index * getTiming('tokenDelay')
TimedTokenizerAnimate(n) ==
    /\ sched.stage = "idle"
    /\ sched' = [SchedIdle EXCEPT
                    !.stage = IF n = 0 THEN "idle" ELSE "tokenizer",
                    !.seq = n,
                    !.n = n,
                    !.pending =
                        { Timer(i + 1, 0, Times(i, getTiming("tokenDelay")),
                                "reveal", i, Len(speedCalls)) : i \in 0..(n - 1) }]
    /\ TimedFrame

\* a reveal timer fires: the token is shown; the timer of the last token
\* sets setTimeout(resolve, getTiming('tokenDelay'))
TimedReveal ==
    /\ sched.stage = "tokenizer"
    /\ sched.pending # {}
    /\ LET t == Earliest(sched.pending) IN
       /\ t.fn = "reveal"
       /\ sched' = [sched EXCEPT
                       !.now = t.due,
                       !.shown = Append(@, t.index),
                       !.seq = IF t.index = sched.n - 1 THEN @ + 1 ELSE @,
                       !.pending =
                           (@ \ {t}) \cup
                           (IF t.index = sched.n - 1
                            THEN { Timer(sched.seq + 1, t.due,
                                         getTiming("tokenDelay"), "resolve", 0,
                                         Len(speedCalls)) }
                            ELSE {})]
    /\ TimedFrame

\* a drawCell that computes its delay when it sets the timer
CellDelayNow(s) == DividedBy(getTiming("attentionDraw"), s.n * s.n)

\* the delay drawCell gives setTimeout: the constant cellDelay of animate()
CellDelay(s) == s.cellDelay

\* drawCell(): the next cell is drawn and the next call is set after
\* cellDelay, or, after the last cell, resolve is set after 200 ms
DrawCell(s, now) ==
    IF s.currentCell >= s.n * s.n
    THEN [s EXCEPT !.now = now, !.seq = @ + 1,
                   !.pending = { Timer(s.seq + 1, now, Num(200, 1), "resolve",
                                       0, Len(speedCalls)) }]
    ELSE [s EXCEPT !.now = now, !.seq = @ + 1,
                   !.shown = Append(@, s.currentCell),
                   !.currentCell = @ + 1,
                   !.pending = { Timer(s.seq + 1, now, CellDelay(s), "drawCell",
                                       s.currentCell + 1, s.cellAt) }]

\* AttentionVisualizer.animate(tokens) with n tokens: cellDelay is computed
\* once, and drawCell() is called
TimedAttentionAnimate(n) ==
    /\ sched.stage = "idle"
    /\ sched' = IF n = 0 THEN SchedIdle
                ELSE DrawCell([SchedIdle EXCEPT
                                 !.stage = "attention",
                                 !.n = n,
                                 !.cellDelay =
                                     DividedBy(getTiming("attentionDraw"), n * n),
                                 !.cellAt = Len(speedCalls)], 0)
    /\ TimedFrame

\* the timer of drawCell fires
TimedDrawCell ==
    /\ sched.stage = "attention"
    /\ sched.pending # {}
    /\ LET t == Earliest(sched.pending) IN
       /\ t.fn = "drawCell"
       /\ sched' = DrawCell(sched, t.due)
    /\ TimedFrame

\* the timer of resolve fires: the promise of animate() resolves
TimedResolve ==
    /\ sched.stage # "idle"
    /\ sched.pending # {}
    /\ LET t == Earliest(sched.pending) IN
       /\ t.fn = "resolve"
       /\ sched' = [sched EXCEPT !.stage = "idle", !.now = t.due,
                                 !.pending = @ \ {t}]
    /\ TimedFrame

TimerNext ==
    \/ \E n \in 0..MaxTimedTokens : TimedTokenizerAnimate(n)
    \/ \E n \in 0..MaxTimedGrid : TimedAttentionAnimate(n)
    \/ TimedReveal
    \/ TimedDrawCell
    \/ TimedResolve
    \/ \E m \in SpeedSet : setSpeed(m)

TimerSpec == Init /\ [][TimerNext]_vars

\* the delay a timer has when its value is computed after `at` setSpeed calls
DelayAt(t, at) ==
    LET m == SpeedAfter(at) IN
    CASE t.fn = "reveal" ->
             TimerDelay(Times(t.index, Divide(timing["tokenDelay"], m)))
      [] t.fn = "drawCell" ->
             TimerDelay(DividedBy(Divide(timing["attentionDraw"], m),
                                  sched.n * sched.n))
      [] t.fn = "resolve" /\ sched.stage = "tokenizer" ->
             TimerDelay(Divide(timing["tokenDelay"], m))
      [] OTHER -> 200

\* C35: a setSpeed call while a stage is animating changes no pending timer:
\* every pending timer has the delay of the multiplier in force when its
\* delay was computed (for a cell of the attention grid, at the start of
\* animate()), a delay computed later has the new multiplier, and the
\* tokens and cells are revealed in the order of their indices
C35_SpeedChangeKeepsTimers ==
    /\ [][ speedMultiplier' # speedMultiplier =>
              /\ sched'.pending = sched.pending
              /\ sched'.shown = sched.shown ]_vars
    /\ [][ \A t \in sched'.pending \ sched.pending :
               t.at = (IF t.fn = "drawCell" THEN sched'.cellAt
                       ELSE Len(speedCalls)) ]_vars
    /\ [](\A t \in sched.pending :
             /\ t.delay = DelayAt(t, t.at)
             /\ t.due - t.delay <= sched.now)
    /\ [](\A k \in 1..Len(sched.shown) : sched.shown[k] = k - 1)

\* the speed was doubled while the reveal timer of the third token was
\* pending: that timer fired at its 200 ms and set the resolve timer with
\* the new delay of 50 ms
C35_Witness ==
    /\ sched.stage = "tokenizer"
    /\ speedCalls = <<Rat(2, 1)>>
    /\ sched.shown = <<0, 1, 2>>
    /\ sched.pending =
          { [seq |-> 4, due |-> 250, delay |-> 50, fn |-> "resolve",
             index |-> 0, at |-> 1] }

====
